---------------------------- MODULE Spec2Model ----------------------------
(***************************************************************************)
(* Bagels multi-currency ledger: the exchange-rate store, the conversion   *)
(* resolver and the aggregation engine, modelled from the Python sources.  *)
(*                                                                         *)
(* Numbers.  Python floats are modelled as exact extended rationals        *)
(* [n, d] in lowest terms: d > 0 is a finite value, <<1,0>> and <<-1,0>>   *)
(* are +inf and -inf, <<0,0>> is NaN.  Floating point tolerance is thus    *)
(* abstracted to exact arithmetic.                                         *)
(*                                                                         *)
(* Strings.  Currency codes are sequences of one-character strings so that *)
(* str.upper() and str.strip() are computed, not assumed.                  *)
(***************************************************************************)
EXTENDS Integers, Sequences, FiniteSets, TLC

(***************************************************************************)
(* Bounds of the model                                                     *)
(***************************************************************************)
\* number of set_rate calls explored in one behaviour
MaxCalls == 2

\* records created in a behaviour of a ledger specification
MaxRecords == 2

\* the Python value None (a record, so that it compares with rows and numbers)
None == [none |-> TRUE]

\* no exception raised
NoError == "NoError"

\* a value of a nullable column or of an optional argument that is not None
Some(x) == [some |-> x]

(***************************************************************************)
(* Extended rational arithmetic (the float operations the code uses)       *)
(***************************************************************************)
Abs(x) == IF x < 0 THEN -x ELSE x

RECURSIVE GCD(_, _)
GCD(a, b) == IF b = 0 THEN a ELSE GCD(b, a % b)

\* the value n/d in lowest terms
Rat(n, d) ==
    LET g == GCD(Abs(n), d)
    IN  IF g = 0 THEN [n |-> 0, d |-> 0] ELSE [n |-> n \div g, d |-> d \div g]

Int2Rat(i) == [n |-> i, d |-> 1]

Zero == Int2Rat(0)

IsNaN(x) == x.n = 0 /\ x.d = 0

IsFinite(x) == x.d > 0

\* Python  x == 0  on a float
IsZero(x) == x.n = 0 /\ x.d > 0

RatAdd(x, y) == Rat(x.n * y.d + y.n * x.d, x.d * y.d)

RatNeg(x) == [n |-> -x.n, d |-> x.d]

RatSub(x, y) == RatAdd(x, RatNeg(y))

RatMul(x, y) == Rat(x.n * y.n, x.d * y.d)

\* Python  1.0 / x  for x # 0
RatInv(x) == IF x.n < 0 THEN Rat(-x.d, -x.n) ELSE Rat(x.d, x.n)

RatAbs(x) == [n |-> Abs(x.n), d |-> x.d]

RatLt(x, y) == ~IsNaN(x) /\ ~IsNaN(y) /\ x # y /\
               IF x.d = 0 /\ y.d = 0 THEN x.n < y.n
               ELSE IF x.d = 0 THEN x.n < 0
               ELSE IF y.d = 0 THEN y.n > 0
               ELSE x.n * y.d < y.n * x.d

Inf == [n |-> 1, d |-> 0]

(***************************************************************************)
(* Strings: str.upper(), str.strip(), ordering of stored codes             *)
(***************************************************************************)
LowerChars == <<"d", "e", "i", "r", "s", "u">>

UpperChars == <<"D", "E", "I", "R", "S", "U">>

\* code-point order of the characters the model uses
Alphabet == <<" ">> \o UpperChars \o LowerChars

CharUpper(c) ==
    IF \E i \in DOMAIN LowerChars : LowerChars[i] = c
    THEN UpperChars[CHOOSE i \in DOMAIN LowerChars : LowerChars[i] = c]
    ELSE c

\* str.upper()
Upper(s) == [i \in DOMAIN s |-> CharUpper(s[i])]

IsSpace(c) == c = " "

RECURSIVE LStrip(_)
LStrip(s) == IF s # <<>> /\ IsSpace(Head(s)) THEN LStrip(Tail(s)) ELSE s

RECURSIVE RStrip(_)
RStrip(s) == IF s # <<>> /\ IsSpace(s[Len(s)])
             THEN RStrip(SubSeq(s, 1, Len(s) - 1)) ELSE s

\* str.strip()
Strip(s) == RStrip(LStrip(s))

CharRank(c) == CHOOSE i \in DOMAIN Alphabet : Alphabet[i] = c

RECURSIVE StrLt(_, _)
StrLt(s, t) ==
    IF t = <<>> THEN FALSE
    ELSE IF s = <<>> THEN TRUE
    ELSE IF Head(s) = Head(t) THEN StrLt(Tail(s), Tail(t))
    ELSE CharRank(Head(s)) < CharRank(Head(t))

USD == <<"U", "S", "D">>
EUR == <<"E", "U", "R">>
IDR == <<"I", "D", "R">>


(***************************************************************************)
(* State                                                                   *)
(***************************************************************************)
VARIABLES
    db,        \* committed rows of table currency_rate
    clock,     \* number of set_rate calls made; datetime.now() of call k is k
    call,      \* the last set_rate call: its rate argument and the exception raised
    pre,       \* db as it was before the last set_rate call
    last,      \* per unordered pair, the most recent valid set_rate call
    allValid,  \* every set_rate call so far was a valid one
    lastQuery, \* the last get_rate / convert call: arguments, result, store queries
    wpc,       \* concurrent set_rate: the statement it is about to execute
    wcall,     \* concurrent set_rate: its arguments and the table when it began
    wsess,     \* concurrent set_rate: its session
    rpc,       \* concurrent get_rate: the statement it is about to execute
    rcall,     \* concurrent get_rate: its (upper-cased) arguments
    rres,      \* concurrent get_rate: the value returned
    rseen,     \* the committed tables that existed while the get_rate ran
    accounts,     \* rows of table account, in id order
    categories,   \* rows of table category, in id order
    records,      \* rows of table record, in id order
    splits,       \* rows of table split, in id order
    datetime_now, \* the wall clock, in seconds; day 0 is a Monday
    CONFIG,       \* the global configuration object of config.py
    refresh,      \* the dynamic_cache calls of the current UI refresh, in order
    record_templates \* rows of table record_template

storeVars == <<db, clock, call, pre, last, allValid>>

queryVars == <<lastQuery>>

concVars == <<wpc, wcall, wsess, rpc, rcall, rres, rseen>>

appVars == <<CONFIG, refresh, record_templates>>

ledgerVars == <<accounts, categories, records, splits, datetime_now, appVars>>

vars == <<storeVars, queryVars, concVars, ledgerVars>>

(***************************************************************************)
(* models/currency_rate.py                                                 *)
(***************************************************************************)
\* a validator that normalises the value and accepts any length
validate_codes_any_length(value) ==
    IF value = <<>> THEN [err |-> "ValueError", value |-> value]
    ELSE [err |-> NoError, value |-> Upper(Strip(value))]

\* @validates("fromCode", "toCode"): the stored value, or the ValueError
validate_codes(value) ==
    IF value = <<>> THEN [err |-> "ValueError", value |-> value]
    ELSE LET v == Upper(Strip(value))
         IN  IF Len(v) # 3 THEN [err |-> "ValueError", value |-> v]
             ELSE [err |-> NoError, value |-> v]

\* CurrencyRate(fromCode=..., toCode=..., rate=..., isManual=...) followed by
\* row.updatedAt = now; deletedAt keeps its column default NULL
CurrencyRate(fromCode, toCode, rate, isManual, now) ==
    [fromCode |-> validate_codes(fromCode).value,
     toCode |-> validate_codes(toCode).value,
     rate |-> rate, isManual |-> isManual, updatedAt |-> now, deletedAt |-> None]

\* UniqueConstraint("fromCode", "toCode"): may `row` be inserted into `rows`
uq_currency_rate_from_to(rows, row) ==
    ~\E r \in rows : r.fromCode = row.fromCode /\ r.toCode = row.toCode

(***************************************************************************)
(* managers/currency_rates.py                                              *)
(***************************************************************************)
\* session.query(CurrencyRate).filter(fromCode == f, toCode == t,
\*                                    deletedAt IS NULL).one_or_none()
query_rate(rows, f, t) ==
    LET hit == {r \in rows : r.fromCode = f /\ r.toCode = t /\ r.deletedAt = None}
    IN  IF hit = {} THEN None ELSE CHOOSE r \in hit : TRUE

RECURSIVE order_by_codes(_)
order_by_codes(rows) ==
    IF rows = {} THEN <<>>
    ELSE LET m == CHOOSE r \in rows : \A o \in rows \ {r} :
                      \/ StrLt(r.fromCode, o.fromCode)
                      \/ r.fromCode = o.fromCode /\ StrLt(r.toCode, o.toCode)
         IN  <<m>> \o order_by_codes(rows \ {m})

list_rates(rows) == order_by_codes({r \in rows : r.deletedAt = None})

\* get_rate, the reverse branch: the reciprocal of a non-zero reverse row
get_rate_reverse(reverse) ==
    IF reverse # None /\ ~IsZero(reverse.rate) THEN RatInv(reverse.rate) ELSE None

\* a get_rate that also multiplies two stored rates through a third currency
get_rate_multihop(rows, from_code, to_code) ==
    LET fc == Upper(from_code)
        tc == Upper(to_code)
        direct == query_rate(rows, fc, tc)
        reverse == get_rate_reverse(query_rate(rows, tc, fc))
        hops == {h \in rows : h.fromCode = fc /\ query_rate(rows, h.toCode, tc) # None}
    IN  IF fc = tc THEN [result |-> Int2Rat(1), lookups |-> 0]
        ELSE IF direct # None THEN [result |-> direct.rate, lookups |-> 1]
        ELSE IF reverse # None \/ hops = {} THEN [result |-> reverse, lookups |-> 2]
        ELSE LET h == CHOOSE h \in hops : TRUE
             IN  [result |-> RatMul(h.rate, query_rate(rows, h.toCode, tc).rate),
                  lookups |-> 4]

\* get_rate: the value returned and the number of queries sent to the store
get_rate_trace(rows, from_code, to_code) ==
    LET fc == Upper(from_code)
        tc == Upper(to_code)
        direct == query_rate(rows, fc, tc)
    IN  IF fc = tc THEN [result |-> Int2Rat(1), lookups |-> 0]
        ELSE IF direct # None THEN [result |-> direct.rate, lookups |-> 1]
        ELSE [result |-> get_rate_reverse(query_rate(rows, tc, fc)), lookups |-> 2]

get_rate(rows, from_code, to_code) == get_rate_trace(rows, from_code, to_code).result

\* a convert that counts a missing rate as 1:1
convert_one_to_one(rows, amount, from_code, to_code) ==
    LET r == get_rate_trace(rows, from_code, to_code)
    IN  [result |-> IF r.result = None THEN amount ELSE RatMul(amount, r.result),
         lookups |-> r.lookups]

\* convert: the value returned and the number of queries sent to the store
convert_trace(rows, amount, from_code, to_code) ==
    LET r == get_rate_trace(rows, from_code, to_code)
    IN  [result |-> IF r.result = None THEN None ELSE RatMul(amount, r.result),
         lookups |-> r.lookups]

convert(rows, amount, from_code, to_code) ==
    convert_trace(rows, amount, from_code, to_code).result

\* A session: tx is the transaction's view of the table (committed rows plus
\* what this session has flushed), new the objects added but not yet
\* flushed, err the exception that ended the call.
Session(rows) == [tx |-> rows, new |-> <<>>, err |-> NoError]

\* session flush: INSERT the pending objects in the order they were added
RECURSIVE flush(_)
flush(s) ==
    IF s.new = <<>> THEN s
    ELSE IF ~uq_currency_rate_from_to(s.tx, Head(s.new))
         THEN [s EXCEPT !.err = "IntegrityError"]
         ELSE flush([s EXCEPT !.tx = @ \cup {Head(s.new)}, !.new = Tail(@)])

\* set_rate, direct row: look up (from_code, to_code), create or update it
set_rate_direct(s, fc, tc, rate, is_manual, now) ==
    LET direct == query_rate(s.tx, fc, tc)
    IN  IF direct = None
        THEN IF validate_codes(fc).err # NoError \/ validate_codes(tc).err # NoError
             THEN [s EXCEPT !.err = "ValueError"]
             ELSE [s EXCEPT !.new = Append(@, CurrencyRate(fc, tc, rate, is_manual, now))]
        ELSE [s EXCEPT !.tx = (@ \ {direct}) \cup
                 {[direct EXCEPT !.rate = rate, !.isManual = is_manual,
                                 !.updatedAt = now]}]

\* set_rate_reverse that stores the rate itself in the reverse row
set_rate_reverse_same_rate(s, fc, tc, rate, is_manual, now) ==
    IF fc # tc /\ ~IsZero(rate)
    THEN LET f == flush(s)
             reverse == query_rate(f.tx, tc, fc)
         IN  IF f.err # NoError THEN f
             ELSE IF reverse = None
             THEN [f EXCEPT !.new = Append(@, CurrencyRate(tc, fc, rate, is_manual, now))]
             ELSE [f EXCEPT !.tx = (@ \ {reverse}) \cup
                      {[reverse EXCEPT !.rate = rate, !.isManual = is_manual,
                                       !.updatedAt = now]}]
    ELSE s

\* set_rate_reverse that leaves an existing reverse row as it is
set_rate_reverse_stale(s, fc, tc, rate, is_manual, now) ==
    IF fc # tc /\ ~IsZero(rate)
    THEN LET f == flush(s)
         IN  IF f.err # NoError THEN f
             ELSE IF query_rate(f.tx, tc, fc) = None
             THEN [f EXCEPT !.new = Append(@, CurrencyRate(tc, fc, RatInv(rate), is_manual, now))]
             ELSE f
    ELSE s

\* set_rate, reverse row: skipped for a zero rate; the query autoflushes
set_rate_reverse(s, fc, tc, rate, is_manual, now) ==
    IF fc # tc /\ ~IsZero(rate)
    THEN LET inverse == RatInv(rate)
             f == flush(s)
             reverse == query_rate(f.tx, tc, fc)
         IN  IF f.err # NoError THEN f
             ELSE IF reverse = None
             THEN [f EXCEPT !.new = Append(@, CurrencyRate(tc, fc, inverse, is_manual, now))]
             ELSE [f EXCEPT !.tx = (@ \ {reverse}) \cup
                      {[reverse EXCEPT !.rate = inverse, !.isManual = is_manual,
                                       !.updatedAt = now]}]
    ELSE s

\* session.commit(): flush what is pending, then publish the transaction
commit(s) == flush(s)

\* a store whose readers see what an open transaction has flushed so far
visible_uncommitted(committed, s) == s.tx

\* what another connection reads while set_rate's transaction is open: the
\* committed table; the session's writes appear with session.commit() only
visible(committed, s) == committed

\* the whole call: the committed table afterwards and the exception raised
set_rate(rows, from_code, to_code, rate, is_manual, now) ==
    LET fc == Upper(from_code)
        tc == Upper(to_code)
        s1 == set_rate_direct(Session(rows), fc, tc, rate, is_manual, now)
        s2 == IF s1.err # NoError THEN s1
              ELSE set_rate_reverse(s1, fc, tc, rate, is_manual, now)
        s3 == IF s2.err # NoError THEN s2 ELSE commit(s2)
    IN  IF fc = tc THEN [db |-> rows, raised |-> "ValueError"]
        ELSE IF s3.err # NoError THEN [db |-> rows, raised |-> s3.err]
        ELSE [db |-> s3.tx, raised |-> NoError]

(***************************************************************************)
(* Inputs of the rate-store specification                                  *)
(***************************************************************************)
\* codes as callers may pass them: clean, padded lower case, lower case
RawCodes == {USD, <<" ", "u", "s", "d">>, <<"e", "u", "r">>, IDR}

\* rates as callers may pass them: zero, positive, negative, infinite
RawRates == {Zero, Int2Rat(2), Int2Rat(3), Int2Rat(-1), Inf}

\* a well-formed code: three characters, none of them surrounding blanks
IsCode(c) == Len(c) = 3 /\ Strip(c) = c

\* a valid call in the sense of the rate-store contract
ValidCall(f, t, r) ==
    /\ IsCode(f) /\ IsCode(t) /\ Upper(f) # Upper(t)
    /\ IsFinite(r) /\ r.n > 0

Pair(f, t) == {Upper(f), Upper(t)}

(***************************************************************************)
(* config.py: Defaults                                                     *)
(***************************************************************************)
first_day_of_week == 6

round_decimals == 2

\* the currencies of Currencies.supported
supported ==
    << [code |-> USD, symbol |-> <<"$">>, decimals |-> 2],
       [code |-> EUR, symbol |-> <<"€">>, decimals |-> 2],
       [code |-> IDR, symbol |-> <<"R", "p">>, decimals |-> 0] >>

\* Config(): the configuration with every field at its default
Config ==
    [defaults |-> [default_currency |-> USD],
     state |-> [budgeting |-> [income_assess_metric |-> "periodIncome",
                               income_assess_threshold |-> Int2Rat(100),
                               income_assess_fallback |-> Int2Rat(3500)]],
     currencies |-> [supported |-> supported]]

default_currency == CONFIG.defaults.default_currency

(***************************************************************************)
(* datetime: a datetime is a number of seconds, a date a number of days    *)
(***************************************************************************)
SecondsPerDay == 24 * 60 * 60

\* datetime.date()
date(dt) == dt \div SecondsPerDay

\* datetime.replace(hour=0, minute=0, second=0, microsecond=0)
midnight(dt) == date(dt) * SecondsPerDay

\* datetime.replace(hour=23, minute=59, second=59) of a datetime without
\* microseconds
last_second(dt) == midnight(dt) + SecondsPerDay - 1

\* timedelta(days=n)
days(n) == n * SecondsPerDay

\* datetime.weekday(): Monday is 0
weekday(dt) == date(dt) % 7

\* the calendar: second 0 is 00:00:00 on Monday the first of January of
\* EpochYear
EpochYear == 2024

is_leap(y) == (y % 4 = 0 /\ y % 100 # 0) \/ y % 400 = 0

days_in_year(y) == IF is_leap(y) THEN 366 ELSE 365

days_in_month(y, m) ==
    IF m = 2 THEN (IF is_leap(y) THEN 29 ELSE 28)
    ELSE IF m \in {4, 6, 9, 11} THEN 30
    ELSE 31

\* the leap years before year y
leap_years_before(y) == ((y - 1) \div 4) - ((y - 1) \div 100) + ((y - 1) \div 400)

\* the days from the first of January of EpochYear to that of year y
days_before_year(y) ==
    365 * (y - EpochYear) + leap_years_before(y) - leap_years_before(EpochYear)

\* the days from the first of January of year y to the first of month m
days_before_month(y, m) ==
    <<0, 31, 59, 90, 120, 151, 181, 212, 243, 273, 304, 334>>[m]
        + (IF m > 2 /\ is_leap(y) THEN 1 ELSE 0)

\* datetime(year, month, day, hour, minute, second)
datetime(y, m, d, hour, minute, second) ==
    days(days_before_year(y) + days_before_month(y, m) + d - 1)
        + hour * 60 * 60 + minute * 60 + second

\* the years around the day d that can hold it
years_near(d) ==
    (EpochYear + (IF d >= 0 THEN d \div 366 ELSE d \div 365) - 1)
        .. (EpochYear + (IF d >= 0 THEN d \div 365 ELSE d \div 366) + 1)

\* datetime.year: the year that holds the day of dt
year(dt) ==
    CHOOSE y \in years_near(date(dt)) :
        \E d \in {date(dt)} :
            days_before_year(y) <= d /\ d < days_before_year(y) + days_in_year(y)

\* datetime.month: the month of its year that holds the day of dt
month(dt) ==
    CHOOSE m \in 1..12 :
        \E y \in {year(dt)} : \E day_of_year \in {date(dt) - days_before_year(y)} :
            /\ days_before_month(y, m) <= day_of_year
            /\ day_of_year < days_before_month(y, m) + days_in_month(y, m)

(***************************************************************************)
(* round(x, ndigits): the nearest multiple of 10^-ndigits, a tie going to   *)
(* the even one (the model's numbers are exact, so decimal ties are ties)  *)
(***************************************************************************)
round(x, ndigits) ==
    IF ~IsFinite(x) THEN x
    ELSE LET scale == 10 ^ ndigits
             num == x.n * scale
             fl == num \div x.d
             twice == 2 * (num - fl * x.d)
             q == IF twice < x.d THEN fl
                  ELSE IF twice > x.d THEN fl + 1
                  ELSE IF fl % 2 = 0 THEN fl ELSE fl + 1
         IN  Rat(q, scale)

RECURSIVE SumRat(_)
\* sum(...) of a sequence of numbers
SumRat(seq) == IF seq = <<>> THEN Zero ELSE RatAdd(Head(seq), SumRat(Tail(seq)))

(***************************************************************************)
(* models: account, category, record, split                                *)
(***************************************************************************)
Account(id, name, beginningBalance) ==
    [id |-> id, name |-> name, beginningBalance |-> beginningBalance, deletedAt |-> None]

Category(id, nature, parentCategoryId) ==
    [id |-> id, nature |-> nature, parentCategoryId |-> parentCategoryId,
     deletedAt |-> None]

\* Record.validate_amount
Record_validate_amount(value) ==
    IF value # None THEN round(value, round_decimals) ELSE value

\* Record.validate_currency_code
Record_validate_currency_code(value) ==
    IF value = None \/ value.some = <<>> THEN [err |-> NoError, value |-> None]
    ELSE LET v == Upper(Strip(value.some))
         IN  IF Len(v) # 3 THEN [err |-> "ValueError", value |-> None]
             ELSE [err |-> NoError, value |-> Some(v)]

\* Record(**record_data), then the INSERT with the table's NOT NULL and CHECK
\* constraints; id is the primary key the INSERT assigns
Record(record_data, id) ==
    LET code == Record_validate_currency_code(record_data.currencyCode)
        amount == Record_validate_amount(record_data.amount)
    IN  IF code.err # NoError THEN [err |-> code.err, row |-> None]
        ELSE IF \/ amount = None
                \/ ~RatLt(Zero, amount)
                \/ (record_data.isTransfer /\ record_data.isIncome)
        THEN [err |-> "IntegrityError", row |-> None]
        ELSE [err |-> NoError,
              row |-> [id |-> id,
                       amount |-> amount,
                       currencyCode |-> code.value,
                       date |-> record_data.date,
                       accountId |-> record_data.accountId,
                       categoryId |-> record_data.categoryId,
                       isIncome |-> record_data.isIncome,
                       isTransfer |-> record_data.isTransfer,
                       transferToAccountId |-> record_data.transferToAccountId]]

\* Split.validate_amount
Split_validate_amount(value) ==
    IF value # None THEN round(value, round_decimals) ELSE value

\* Split.validate_currency_code
Split_validate_currency_code(value) ==
    IF value = None \/ value.some = <<>> THEN [err |-> NoError, value |-> None]
    ELSE LET v == Upper(Strip(value.some))
         IN  IF Len(v) # 3 THEN [err |-> "ValueError", value |-> None]
             ELSE [err |-> NoError, value |-> Some(v)]

\* Split(**split_data), then the INSERT with the table's NOT NULL constraints
Split(split_data, id) ==
    LET code == Split_validate_currency_code(split_data.currencyCode)
        amount == Split_validate_amount(split_data.amount)
    IN  IF code.err # NoError THEN [err |-> code.err, row |-> None]
        ELSE IF amount = None THEN [err |-> "IntegrityError", row |-> None]
        ELSE [err |-> NoError,
              row |-> [id |-> id,
                       recordId |-> split_data.recordId,
                       amount |-> amount,
                       personId |-> split_data.personId,
                       isPaid |-> split_data.isPaid,
                       accountId |-> split_data.accountId,
                       currencyCode |-> code.value]]

(***************************************************************************)
(* The database an ORM session reads, and the relationships of its rows     *)
(***************************************************************************)
Database(account, category, record, split, currency_rate) ==
    [account |-> account, category |-> category, record |-> record,
     split |-> split, currency_rate |-> currency_rate]

\* session.query(...).filter(id == id).first()
get_by_id(table, id) == table[CHOOSE i \in DOMAIN table : table[i].id = id]

\* relationship Record.splits
record_splits(session, record) ==
    SelectSeq(session.split, LAMBDA sp : sp.recordId = record.id)

\* relationship Split.record
split_record(session, split) == get_by_id(session.record, split.recordId)

\* sum(split.amount for split in record.splits)
split_total(session, record) ==
    LET ss == record_splits(session, record)
    IN  SumRat([i \in DOMAIN ss |-> ss[i].amount])

(***************************************************************************)
(* managers/records.py: create                                             *)
(***************************************************************************)
create_record(record_table, record_data) ==
    LET record == Record(record_data, Len(record_table) + 1)
    IN  [err |-> record.err, record |-> record.row,
         table |-> IF record.err = NoError THEN Append(record_table, record.row)
                   ELSE record_table]

\* managers/splits.py is not part of the sources: Split(**data), add, commit
create_split(split_table, split_data) ==
    LET split == Split(split_data, Len(split_table) + 1)
    IN  [err |-> split.err,
         table |-> IF split.err = NoError THEN Append(split_table, split.row)
                   ELSE split_table]

RECURSIVE create_splits(_, _, _)
\* the loop of create_record_and_splits: every split is committed on its own
\* and an exception ends the loop
create_splits(split_table, splits_data, recordId) ==
    IF splits_data = <<>> THEN [err |-> NoError, table |-> split_table]
    ELSE LET out == create_split(split_table,
                                 [Head(splits_data) EXCEPT !.recordId = recordId])
         IN  IF out.err # NoError THEN out
             ELSE create_splits(out.table, Tail(splits_data), recordId)

create_record_and_splits(record_table, split_table, record_data, splits_data) ==
    LET rec == create_record(record_table, record_data)
    IN  IF rec.err # NoError
        THEN [err |-> rec.err, record |-> record_table, split |-> split_table]
        ELSE LET out == create_splits(split_table, splits_data, rec.record.id)
             IN  [err |-> out.err, record |-> rec.table, split |-> out.table]

\* update_record with updated_data = {"currencyCode": ...}: setattr runs the
\* validator, and an exception leaves the session uncommitted
update_record(record_table, record_id, updated_data) ==
    IF ~\E i \in DOMAIN record_table : record_table[i].id = record_id
    THEN [err |-> NoError, table |-> record_table]
    ELSE LET code == Record_validate_currency_code(updated_data.currencyCode)
         IN  IF code.err # NoError THEN [err |-> code.err, table |-> record_table]
             ELSE [err |-> NoError,
                   table |-> [i \in DOMAIN record_table |->
                                IF record_table[i].id = record_id
                                THEN [record_table[i] EXCEPT !.currencyCode = code.value]
                                ELSE record_table[i]]]

\* managers/splits.py is not part of the sources: as update_record, on a split
update_split(split_table, split_id, updated_data) ==
    IF ~\E i \in DOMAIN split_table : split_table[i].id = split_id
    THEN [err |-> NoError, table |-> split_table]
    ELSE LET code == Split_validate_currency_code(updated_data.currencyCode)
         IN  IF code.err # NoError THEN [err |-> code.err, table |-> split_table]
             ELSE [err |-> NoError,
                   table |-> [i \in DOMAIN split_table |->
                                IF split_table[i].id = split_id
                                THEN [split_table[i] EXCEPT !.currencyCode = code.value]
                                ELSE split_table[i]]]

(***************************************************************************)
(* The ledger at start-up                                                  *)
(***************************************************************************)
LedgerInit ==
    /\ CONFIG = Config
    /\ refresh = <<>>
    /\ record_templates = {}
    /\ accounts = << Account(1, "Outside source", Zero),
                     Account(2, "Cash", Zero),
                     Account(3, "Bank", Rat(2550, 100)) >>
    /\ categories = << Category(1, "Need", None), Category(2, "Want", Some(1)) >>
    /\ records = <<>>
    /\ splits = <<>>
    /\ datetime_now = days(17) + 12 * 60 * 60

(***************************************************************************)
(* Rate-store specification: any sequence of set_rate calls                *)
(***************************************************************************)
StoreInit ==
    /\ db = {}
    /\ clock = 0
    /\ call = None
    /\ pre = {}
    /\ last = {}
    /\ allValid = TRUE

QueryInit == lastQuery = None

ConcInit ==
    /\ wpc = "idle"
    /\ wcall = None
    /\ wsess = Session({})
    /\ rpc = "idle"
    /\ rcall = None
    /\ rres = None
    /\ rseen = {}

Init == StoreInit /\ QueryInit /\ ConcInit /\ LedgerInit

SetRate(f, t, r, m) ==
    /\ clock < MaxCalls
    /\ LET out == set_rate(db, f, t, r, m, clock + 1)
       IN  /\ db' = out.db
           /\ call' = [rate |-> r, raised |-> out.raised]
    /\ clock' = clock + 1
    /\ pre' = db
    /\ allValid' = (allValid /\ ValidCall(f, t, r))
    /\ last' = IF ValidCall(f, t, r)
               THEN {c \in last : c.pair # Pair(f, t)} \cup
                    {[pair |-> Pair(f, t), from |-> Upper(f), to |-> Upper(t), rate |-> r]}
               ELSE last
    /\ lastQuery' = None
    /\ wsess' = Session(db')
    /\ UNCHANGED <<wpc, wcall, rpc, rcall, rres, rseen, ledgerVars>>

Next == \E f \in RawCodes, t \in RawCodes, r \in RawRates, m \in BOOLEAN :
            SetRate(f, t, r, m)

Spec == Init /\ [][Next]_vars

(***************************************************************************)
(* Claims on the rate store (specification Spec)                           *)
(***************************************************************************)
\* C1: in every reachable state every non-deleted stored row (A,B,r) has a
\* matching non-deleted row (B,A,1/r) with the same isManual and updatedAt.
C1_EveryRowHasItsInverse ==
    \A r \in db : r.deletedAt = None =>
        /\ ~IsZero(r.rate)
        /\ \E q \in db :
              /\ q.deletedAt = None
              /\ q.fromCode = r.toCode /\ q.toCode = r.fromCode
              /\ q.rate = RatInv(r.rate)
              /\ q.isManual = r.isManual /\ q.updatedAt = r.updatedAt

\* C2: a set_rate call whose rate is not a finite positive number raises and
\* leaves the store as it was: list_rates returns the same rows before and after.
C2_BadRateRejected ==
    (call # None /\ ~(IsFinite(call.rate) /\ call.rate.n > 0)) =>
        /\ call.raised # NoError
        /\ list_rates(db) = list_rates(pre)

\* the well-formed codes a caller may query with
QueryCodes == {c \in RawCodes : IsCode(c)}

LastCall(a, b) == {c \in last : c.pair = Pair(a, b)}

C4_NoSameCurrencyRow ==
    \A r \in db : r.fromCode # r.toCode

(***************************************************************************)
(* Query specification: a few set_rate calls with clean codes, then        *)
(* get_rate and convert calls against the store they left                  *)
(***************************************************************************)
CleanCodes == {USD, EUR, IDR}

\* rates stored in the query specification; 0 leaves a row without inverse
QueryRates == {Zero, Int2Rat(2)}

\* codes queried: get_rate upper-cases what it is given
QueryRaw == {USD, <<"e", "u", "r">>, IDR}

QueryAmounts == {Int2Rat(5), Rat(-7, 2)}

GetRate(f, t) ==
    /\ LET r == get_rate_trace(db, f, t)
       IN  lastQuery' = [op |-> "get_rate", from |-> f, to |-> t, amount |-> None,
                         result |-> r.result, lookups |-> r.lookups]
    /\ UNCHANGED <<storeVars, concVars, ledgerVars>>

Convert(x, f, t) ==
    /\ LET r == convert_trace(db, x, f, t)
       IN  lastQuery' = [op |-> "convert", from |-> f, to |-> t, amount |-> x,
                         result |-> r.result, lookups |-> r.lookups]
    /\ UNCHANGED <<storeVars, concVars, ledgerVars>>

NextQuery ==
    \/ \E f \in CleanCodes, t \in CleanCodes, r \in QueryRates : SetRate(f, t, r, TRUE)
    \/ \E f \in QueryRaw, t \in QueryRaw : GetRate(f, t)
    \/ \E x \in QueryAmounts, f \in QueryRaw, t \in QueryRaw : Convert(x, f, t)

SpecQuery == Init /\ [][NextQuery]_vars

\* the non-deleted rows stored for the directed pair (a, b)
RowsFor(a, b) == {r \in db : r.fromCode = a /\ r.toCode = b /\ r.deletedAt = None}

\* C6: for distinct codes A and B, get_rate(A,B) is the rate of the stored row
\* (A,B) when there is one; otherwise 1/r when a row (B,A,r) with r # 0 is
\* stored; otherwise None, also when A and B are linked through a third
\* currency only.
C6_DirectOrReciprocalOnly ==
    (lastQuery # None /\ lastQuery.op = "get_rate"
        /\ Upper(lastQuery.from) # Upper(lastQuery.to)) =>
        LET a == Upper(lastQuery.from)
            b == Upper(lastQuery.to)
        IN  IF RowsFor(a, b) # {}
            THEN \E r \in RowsFor(a, b) : lastQuery.result = r.rate
            ELSE IF \E r \in RowsFor(b, a) : ~IsZero(r.rate)
            THEN \E r \in RowsFor(b, a) : lastQuery.result = RatInv(r.rate)
            ELSE lastQuery.result = None

\* C6 witness: A<->C and C<->B are stored, nothing for {A,B}, and get_rate(A,B)
\* returned None.
C6_Witness ==
    /\ lastQuery # None /\ lastQuery.op = "get_rate"
    /\ lastQuery.result = None
    /\ LET a == Upper(lastQuery.from)
           b == Upper(lastQuery.to)
       IN  /\ RowsFor(a, b) = {} /\ RowsFor(b, a) = {}
           /\ \E c \in CleanCodes :
                 /\ \E r \in RowsFor(a, c) : ~IsZero(r.rate)
                 /\ \E r \in RowsFor(c, b) : ~IsZero(r.rate)

\* C7: convert(amount, A, B) is None exactly when get_rate(A,B) is None and
\* amount * get_rate(A,B) otherwise; for A equal to B it is the amount itself
\* and the store is not queried.
C7_ConvertIsAmountTimesRate ==
    (lastQuery # None /\ lastQuery.op = "convert") =>
        LET rate == get_rate(db, lastQuery.from, lastQuery.to)
        IN  /\ (lastQuery.result = None) <=> (rate = None)
            /\ rate # None => lastQuery.result = RatMul(lastQuery.amount, rate)
            /\ Upper(lastQuery.from) = Upper(lastQuery.to) =>
                  /\ lastQuery.result = lastQuery.amount
                  /\ lastQuery.lookups = 0
            /\ Upper(lastQuery.from) # Upper(lastQuery.to) => lastQuery.lookups > 0

\* C7 witness: a convert between two currencies with rows stored for other
\* pairs only returned None.
C7_Witness ==
    /\ lastQuery # None /\ lastQuery.op = "convert"
    /\ Upper(lastQuery.from) # Upper(lastQuery.to)
    /\ db # {}
    /\ lastQuery.result = None

\* C7 witness, second case: a convert from a currency to itself returned the
\* amount with no store query.
C7_WitnessSame ==
    /\ lastQuery # None /\ lastQuery.op = "convert"
    /\ Upper(lastQuery.from) = Upper(lastQuery.to)
    /\ lastQuery.result = lastQuery.amount /\ lastQuery.lookups = 0

\* C12: when every set_rate so far was a valid one and the pair {A,B} is
\* stored, convert(x, A, B) has a value and converting it back from B to A
\* gives x again, in whichever direction the pair was given to set_rate.
C12_RoundTrip ==
    (lastQuery # None /\ lastQuery.op = "convert" /\ allValid
        /\ \E c \in last : c.pair = Pair(lastQuery.from, lastQuery.to)) =>
        /\ lastQuery.result # None
        /\ convert(db, lastQuery.result, lastQuery.to, lastQuery.from) = lastQuery.amount

\* C12 witness: a pair stored by set_rate(B, A, r) with r # 1, and a convert
\* from A to B whose result converts back to the amount.
C12_Witness ==
    /\ lastQuery # None /\ lastQuery.op = "convert" /\ allValid
    /\ \E c \in last : /\ c.from = Upper(lastQuery.to) /\ c.to = Upper(lastQuery.from)
                       /\ c.rate # Int2Rat(1)
    /\ lastQuery.result # None /\ lastQuery.result # lastQuery.amount
    /\ convert(db, lastQuery.result, lastQuery.to, lastQuery.from) = lastQuery.amount

(***************************************************************************)
(* Concurrency specification: one set_rate and one get_rate running         *)
(* statement by statement against the same store                           *)
(***************************************************************************)
ConcCodes == {USD, <<" ", "u", "s", "d">>, EUR}

ConcRates == {Zero, Int2Rat(2), Int2Rat(3)}

ReadCodes == {USD, EUR}

\* the writer leaves set_rate: by return or by exception (finally: close)
WriterEnds(raised, rows) ==
    /\ wpc' = "idle"
    /\ call' = [rate |-> wcall.rate, raised |-> raised]
    /\ pre' = wcall.pre
    /\ db' = rows
    /\ wsess' = Session(rows)
    /\ rseen' = IF rpc \in {"direct", "reverse"} THEN rseen \cup {rows} ELSE rseen

\* set_rate, lines 95-103: upper-case the codes, compare them, open a session
W_Begin(f, t, r, m) ==
    /\ wpc = "idle"
    /\ clock < MaxCalls
    /\ clock' = clock + 1
    /\ wcall' = [from |-> f, to |-> t, fc |-> Upper(f), tc |-> Upper(t), rate |-> r,
                 isManual |-> m, now |-> clock + 1, pre |-> db]
    /\ IF Upper(f) = Upper(t)
       THEN /\ call' = [rate |-> r, raised |-> "ValueError"]
            /\ pre' = db
            /\ UNCHANGED <<wpc, wsess>>
       ELSE /\ wpc' = "direct"
            /\ wsess' = Session(db)
            /\ UNCHANGED <<call, pre>>
    /\ UNCHANGED <<db, last, allValid, lastQuery, rpc, rcall, rres, rseen, ledgerVars>>

\* set_rate, lines 105-128
W_Direct ==
    /\ wpc = "direct"
    /\ LET s == set_rate_direct(wsess, wcall.fc, wcall.tc, wcall.rate,
                                wcall.isManual, wcall.now)
       IN  IF s.err # NoError
           THEN WriterEnds(s.err, db) /\ UNCHANGED <<wcall>>
           ELSE /\ wsess' = s
                /\ wpc' = "reverse"
                /\ UNCHANGED <<db, call, pre, wcall, rseen>>
    /\ UNCHANGED <<clock, last, allValid, lastQuery, rpc, rcall, rres, ledgerVars>>

\* set_rate, lines 130-156
W_Reverse ==
    /\ wpc = "reverse"
    /\ LET s == set_rate_reverse(wsess, wcall.fc, wcall.tc, wcall.rate,
                                 wcall.isManual, wcall.now)
       IN  IF s.err # NoError
           THEN WriterEnds(s.err, db) /\ UNCHANGED <<wcall>>
           ELSE /\ wsess' = s
                /\ wpc' = "commit"
                /\ UNCHANGED <<db, call, pre, wcall, rseen>>
    /\ UNCHANGED <<clock, last, allValid, lastQuery, rpc, rcall, rres, ledgerVars>>

\* set_rate, line 158
W_Commit ==
    /\ wpc = "commit"
    /\ LET s == commit(wsess)
       IN  IF s.err # NoError THEN WriterEnds(s.err, db) ELSE WriterEnds(NoError, s.tx)
    /\ UNCHANGED <<clock, wcall, last, allValid, lastQuery, rpc, rcall, rres, ledgerVars>>

\* get_rate, lines 39-43
R_Begin(f, t) ==
    /\ rpc \in {"idle", "done"}
    /\ rcall' = [from |-> Upper(f), to |-> Upper(t)]
    /\ rseen' = {db}
    /\ IF Upper(f) = Upper(t)
       THEN rres' = Int2Rat(1) /\ rpc' = "done"
       ELSE rres' = None /\ rpc' = "direct"
    /\ UNCHANGED <<storeVars, queryVars, wpc, wcall, wsess, ledgerVars>>

\* get_rate, lines 47-58
R_Direct ==
    /\ rpc = "direct"
    /\ LET direct == query_rate(visible(db, wsess), rcall.from, rcall.to)
       IN  IF direct # None
           THEN rres' = direct.rate /\ rpc' = "done"
           ELSE rres' = None /\ rpc' = "reverse"
    /\ UNCHANGED <<storeVars, queryVars, wpc, wcall, wsess, rcall, rseen, ledgerVars>>

\* get_rate, lines 60-73
R_Reverse ==
    /\ rpc = "reverse"
    /\ rres' = get_rate_reverse(query_rate(visible(db, wsess), rcall.to, rcall.from))
    /\ rpc' = "done"
    /\ UNCHANGED <<storeVars, queryVars, wpc, wcall, wsess, rcall, rseen, ledgerVars>>

NextConc ==
    \/ \E f \in ConcCodes, t \in ConcCodes, r \in ConcRates : W_Begin(f, t, r, TRUE)
    \/ W_Direct
    \/ W_Reverse
    \/ W_Commit
    \/ \E f \in ReadCodes, t \in ReadCodes : R_Begin(f, t)
    \/ R_Direct
    \/ R_Reverse

SpecConc == Init /\ [][NextConc]_vars

\* the pair of the set_rate call c is half-written in rows: one of its two
\* rows carries the call's timestamp and the other is older or missing
HalfWritten(rows, c) ==
    LET direct == query_rate(rows, c.fc, c.tc)
        reverse == query_rate(rows, c.tc, c.fc)
    IN  (direct # None /\ direct.updatedAt = c.now)
            # (reverse # None /\ reverse.updatedAt = c.now)

\* what holds of every set_rate, whatever its rate: readers keep seeing the
\* table of before the call until the commit, the commit publishes the outcome
\* of the whole call, and a get_rate returns what get_rate gives on one of the
\* committed tables that existed while it ran
CommitIsAtomic ==
    /\ wpc # "idle" => visible(db, wsess) = wcall.pre
    /\ (wpc = "idle" /\ wcall # None) =>
          db = set_rate(wcall.pre, wcall.from, wcall.to, wcall.rate,
                        wcall.isManual, wcall.now).db
    /\ rpc = "done" =>
          \E rows \in rseen : rres = get_rate(rows, rcall.from, rcall.to)

\* C5: a get_rate that runs concurrently with a set_rate on its pair observes
\* the state before the call or the state after it, and no reader ever sees
\* the direct row at its new rate while the inverse row is still at the old
\* rate or missing (or the reverse).
C5_ReadersSeeOldOrNew ==
    /\ CommitIsAtomic
    /\ wcall # None => ~HalfWritten(visible(db, wsess), wcall)

\* the same for the calls whose rate is not 0, the ones line 131 writes an
\* inverse for
NoHalfStateWhenInverseWritten ==
    (wcall # None /\ ~IsZero(wcall.rate)) => ~HalfWritten(visible(db, wsess), wcall)

\* a get_rate that found no direct row, then saw the set_rate on its pair
\* commit both rows, and returned the new rate from the reverse row
ReadStraddlesCommit ==
    /\ rpc = "done" /\ wpc = "idle" /\ wcall # None
    /\ Cardinality(rseen) = 2
    /\ {wcall.fc, wcall.tc} = {rcall.from, rcall.to}
    /\ rres # None
    /\ get_rate(wcall.pre, rcall.from, rcall.to) = None
    /\ rres = get_rate(db, rcall.from, rcall.to)

(***************************************************************************)
(* managers/accounts.py                                                    *)
(***************************************************************************)
\* a first loop that reads an amount without a currency code in the currency
\* that is the default in Config(), whatever the default is now
account_record_effect_as_stored(session, record) ==
    LET code == IF record.currencyCode # None THEN record.currencyCode.some
                ELSE Config.defaults.default_currency
        amount_default ==
            IF code = default_currency THEN record.amount
            ELSE convert(session.currency_rate, record.amount, code, default_currency)
    IN  IF amount_default = None THEN Zero
        ELSE IF record.isTransfer THEN RatNeg(amount_default)
        ELSE IF record.isIncome THEN amount_default
        ELSE RatNeg(amount_default)

\* get_account_balance, first loop: the effect of a record of the account
account_record_effect(session, record) ==
    LET default_code == default_currency
        code == IF record.currencyCode # None THEN record.currencyCode.some
                ELSE default_code
        amount_default ==
            IF code = default_code THEN record.amount
            ELSE convert(session.currency_rate, record.amount, code, default_code)
    IN  IF amount_default = None THEN Zero
        ELSE IF record.isTransfer THEN RatNeg(amount_default)
        ELSE IF record.isIncome THEN amount_default
        ELSE RatNeg(amount_default)

\* a second loop that credits the record's amount as it is, whatever its
\* currency
transfer_to_effect_unconverted(session, record) == record.amount

\* get_account_balance, second loop: the effect of a transfer into the account
transfer_to_effect(session, record) ==
    LET default_code == default_currency
        code == IF record.currencyCode # None THEN record.currencyCode.some
                ELSE default_code
        amount_default ==
            IF code = default_code THEN record.amount
            ELSE convert(session.currency_rate, record.amount, code, default_code)
    IN  IF amount_default = None THEN Zero ELSE amount_default

\* a third loop that credits every split of the account, paid or not
split_effect_ignoring_isPaid(session, split) ==
    LET parent == split_record(session, split)
        code == IF split.currencyCode # None THEN split.currencyCode.some
                ELSE IF parent.currencyCode # None THEN parent.currencyCode.some
                ELSE default_currency
        amount_default ==
            IF code = default_currency THEN split.amount
            ELSE convert(session.currency_rate, split.amount, code, default_currency)
    IN  IF amount_default = None THEN Zero
        ELSE IF parent.isIncome THEN RatNeg(amount_default)
        ELSE amount_default

\* get_account_balance, third loop: the effect of a split of the account
split_effect(session, split) ==
    IF ~split.isPaid THEN Zero
    ELSE LET default_code == default_currency
             parent == split_record(session, split)
             code == IF split.currencyCode # None THEN split.currencyCode.some
                     ELSE IF parent.currencyCode # None THEN parent.currencyCode.some
                     ELSE default_code
             amount_default ==
                 IF code = default_code THEN split.amount
                 ELSE convert(session.currency_rate, split.amount, code, default_code)
         IN  IF amount_default = None THEN Zero
             ELSE IF parent.isIncome THEN RatNeg(amount_default)
             ELSE amount_default

\* get_account_balance, the value of `balance` when the three loops are done
balance_of(session, accountId) ==
    LET beginningBalance == get_by_id(session.account, accountId).beginningBalance
        account_records ==
            SelectSeq(session.record, LAMBDA r : r.accountId = accountId)
        transfer_to_records ==
            SelectSeq(session.record,
                      LAMBDA r : r.transferToAccountId = Some(accountId) /\ r.isTransfer)
        account_splits ==
            SelectSeq(session.split, LAMBDA sp : sp.accountId = Some(accountId))
    IN  RatAdd(RatAdd(RatAdd(beginningBalance,
            SumRat([i \in DOMAIN account_records |->
                        account_record_effect(session, account_records[i])])),
            SumRat([i \in DOMAIN transfer_to_records |->
                        transfer_to_effect(session, transfer_to_records[i])])),
            SumRat([i \in DOMAIN account_splits |->
                        split_effect(session, account_splits[i])]))

get_account_balance(session, accountId) ==
    round(balance_of(session, accountId), round_decimals)

(***************************************************************************)
(* Ledger specifications: records and splits are created, aggregations are *)
(* read; the rate store holds the pair EUR/USD and no rate for IDR         *)
(***************************************************************************)
LedgerRate == Rat(11, 10)

InitLedger ==
    /\ db = set_rate({}, EUR, USD, LedgerRate, TRUE, 1).db
    /\ clock = 1
    /\ call = [rate |-> LedgerRate, raised |-> NoError]
    /\ pre = {}
    /\ last = {[pair |-> Pair(EUR, USD), from |-> EUR, to |-> USD, rate |-> LedgerRate]}
    /\ allValid = TRUE
    /\ QueryInit
    /\ wpc = "idle" /\ wcall = None /\ wsess = Session(db)
    /\ rpc = "idle" /\ rcall = None /\ rres = None /\ rseen = {}
    /\ LedgerInit

\* the database a new Session() reads
CurrentSession == Database(accounts, categories, records, splits, db)

record_data(amount, currencyCode, when, accountId, categoryId, isIncome, isTransfer, transferToAccountId) ==
    [amount |-> amount, currencyCode |-> currencyCode, date |-> when,
     accountId |-> accountId, categoryId |-> categoryId, isIncome |-> isIncome,
     isTransfer |-> isTransfer, transferToAccountId |-> transferToAccountId]

split_data(amount, accountId, isPaid, currencyCode) ==
    [recordId |-> None, amount |-> amount, personId |-> 1, isPaid |-> isPaid,
     accountId |-> accountId, currencyCode |-> currencyCode]

CreateRecordAndSplits(data, splits_data) ==
    /\ Len(records) < MaxRecords
    /\ LET out == create_record_and_splits(records, splits, data, splits_data)
       IN  records' = out.record /\ splits' = out.split
    /\ lastQuery' = None
    /\ UNCHANGED <<storeVars, concVars, accounts, categories, datetime_now, appVars>>

GetAccountBalance(accountId) ==
    /\ lastQuery' = [op |-> "get_account_balance", accountId |-> accountId,
                     result |-> get_account_balance(CurrentSession, accountId)]
    /\ UNCHANGED <<storeVars, concVars, ledgerVars>>

(***************************************************************************)
(* Balance specification: incomes, expenses, transfers and splits in three *)
(* currencies, and get_account_balance of every account                    *)
(***************************************************************************)
BalCurrencies == {None, Some(<<"e", "u", "r">>), Some(IDR)}

\* an income and an expense of account 2, an expense of account 3 that names
\* account 2 without being a transfer, a transfer to 'Outside source' and a
\* transfer between two tracked accounts
BalRecords ==
    LET when == midnight(datetime_now)
    IN  UNION {{record_data(Int2Rat(100), c, when, 2, Some(1), TRUE, FALSE, None),
                record_data(Int2Rat(50), c, when, 2, Some(1), FALSE, FALSE, None),
                record_data(Int2Rat(50), c, when, 3, None, FALSE, FALSE, Some(2)),
                record_data(Int2Rat(30), c, when, 2, None, FALSE, TRUE, Some(1)),
                record_data(Int2Rat(30), c, when, 3, None, FALSE, TRUE, Some(2))}
               : c \in BalCurrencies}

\* no split, a paid one, an unpaid one, a paid one in a currency of its own
BalSplits(data) ==
    IF data.isTransfer THEN {<<>>}
    ELSE {<<>>,
          <<split_data(Rat(1234, 100), Some(2), TRUE, None)>>,
          <<split_data(Rat(1234, 100), Some(2), FALSE, None)>>,
          <<split_data(Rat(1234, 100), Some(3), TRUE, Some(EUR))>>}

AccountIds == {accounts[i].id : i \in DOMAIN accounts}

NextBal ==
    \/ \E data \in BalRecords : \E splits_data \in BalSplits(data) :
            CreateRecordAndSplits(data, splits_data)
    \/ \E accountId \in AccountIds : GetAccountBalance(accountId)

SpecBal == InitLedger /\ [][NextBal]_vars

RECURSIVE SumOver(_, _)
\* the sum of f[x] over the x in S
SumOver(f, S) ==
    IF S = {} THEN Zero
    ELSE LET x == CHOOSE x \in S : TRUE
         IN  RatAdd(f[x], SumOver(f, S \ {x}))

\* an amount of the given currency (None: the default currency) in the
\* default currency; an amount that cannot be converted counts for nothing
InDefault(amount, currencyCode) ==
    LET converted == IF currencyCode = None THEN amount
                     ELSE convert(db, amount, currencyCode.some, default_currency)
    IN  IF converted = None THEN Zero ELSE converted

\* the currency of a split: its own, else its record's
SplitCurrency(j) ==
    IF splits[j].currencyCode # None THEN splits[j].currencyCode
    ELSE records[splits[j].recordId].currencyCode

BalanceByRule(acc) ==
    LET owned == {i \in DOMAIN records : records[i].accountId = acc}
        into == {i \in DOMAIN records :
                    records[i].isTransfer /\ records[i].transferToAccountId = Some(acc)}
        paid == {j \in DOMAIN splits : splits[j].isPaid /\ splits[j].accountId = Some(acc)}
        value == [i \in DOMAIN records |->
                    InDefault(records[i].amount, records[i].currencyCode)]
        ownedEffect == [i \in owned |->
                          IF records[i].isIncome /\ ~records[i].isTransfer
                          THEN value[i] ELSE RatNeg(value[i])]
        paidEffect == [j \in paid |->
                          LET v == InDefault(splits[j].amount, SplitCurrency(j))
                          IN  IF records[splits[j].recordId].isIncome
                              THEN RatNeg(v) ELSE v]
    IN  RatAdd(RatAdd(RatAdd(accounts[acc].beginningBalance,
                             SumOver(ownedEffect, owned)),
                      SumOver(value, into)),
               SumOver(paidEffect, paid))

\* C9: get_account_balance(acc) is the beginning balance, plus +amount for
\* every non-transfer income of acc and -amount for every other record of acc,
\* plus +amount for every transfer into acc, plus for every paid split settled
\* to acc +amount under an expense and -amount under an income, unpaid splits
\* counting for nothing, every amount converted to the default currency; the
\* result is rounded to round_decimals.
C9_AccountBalance ==
    (lastQuery # None /\ lastQuery.op = "get_account_balance") =>
        lastQuery.result = round(BalanceByRule(lastQuery.accountId), round_decimals)

\* C9 witness: beginning balance 0, an income of 100 and a transfer of 30 out
\* to 'Outside source', both in the default currency, give 70.
C9_Witness ==
    /\ lastQuery # None /\ lastQuery.op = "get_account_balance"
    /\ lastQuery.accountId = 2
    /\ accounts[2].beginningBalance = Zero
    /\ Len(records) = 2 /\ splits = <<>>
    /\ \E i, j \in DOMAIN records :
          /\ records[i].isIncome /\ records[i].amount = Int2Rat(100)
          /\ records[i].accountId = 2 /\ records[i].currencyCode = None
          /\ records[j].isTransfer /\ records[j].amount = Int2Rat(30)
          /\ records[j].accountId = 2 /\ records[j].currencyCode = None
          /\ accounts[records[j].transferToAccountId.some].name = "Outside source"
    /\ lastQuery.result = Int2Rat(70)

\* a balance that is made of a converted record, a transfer in and paid and
\* unpaid splits, and that rounding changes
BalanceOfEverything ==
    /\ lastQuery # None /\ lastQuery.op = "get_account_balance"
    /\ lastQuery.accountId = 2
    /\ \E j \in DOMAIN splits : splits[j].isPaid /\ splits[j].accountId = Some(2)
                                /\ records[splits[j].recordId].currencyCode = Some(EUR)
    /\ \E i \in DOMAIN records : records[i].isTransfer
                                 /\ records[i].transferToAccountId = Some(2)
    /\ lastQuery.result # BalanceByRule(2)

(***************************************************************************)
(* managers/utils.py: periods (day and week granularity) and figures       *)
(***************************************************************************)
_get_start_end_of_year(offset) ==
    LET target_year == year(datetime_now) + offset
        start_of_year == datetime(target_year, 1, 1, 0, 0, 0)
        end_of_year == datetime(target_year, 12, 31, 23, 59, 59)
    IN  <<start_of_year, end_of_year>>

\* a month period whose year is always the current year
_get_start_end_of_month_same_year(offset) ==
    LET shifted_month == month(datetime_now) + offset
        target_year == year(datetime_now)
        target_month == ((shifted_month - 1) % 12) + 1
        following_month == target_month + 1
        next_year == target_year + (following_month - 1) \div 12
        next_month == ((following_month - 1) % 12) + 1
    IN  <<datetime(target_year, target_month, 1, 0, 0, 0),
          datetime(next_year, next_month, 1, 0, 0, 0) - 1>>

_get_start_end_of_month(offset) ==
    LET shifted_month == month(datetime_now) + offset
        target_year == year(datetime_now) + (shifted_month - 1) \div 12
        target_month == ((shifted_month - 1) % 12) + 1
        following_month == target_month + 1
        next_year == target_year + (following_month - 1) \div 12
        next_month == ((following_month - 1) % 12) + 1
        start_of_month == datetime(target_year, target_month, 1, 0, 0, 0)
        end_of_month == datetime(next_year, next_month, 1, 0, 0, 0) - 1
    IN  <<start_of_month, end_of_month>>

_get_start_end_of_week(offset) ==
    LET shifted == datetime_now + days(7 * offset)
        start_of_week ==
            midnight(shifted - days((weekday(shifted) - first_day_of_week) % 7))
        end_of_week == last_second(start_of_week + days(6))
    IN  <<start_of_week, end_of_week>>

_get_start_end_of_day(offset) ==
    LET shifted == datetime_now + days(offset)
    IN  <<midnight(shifted), last_second(shifted)>>

get_start_end_of_period(offset, offset_type) ==
    CASE offset_type = "year" -> _get_start_end_of_year(offset)
      [] offset_type = "month" -> _get_start_end_of_month(offset)
      [] offset_type = "week" -> _get_start_end_of_week(offset)
      [] offset_type = "day" -> _get_start_end_of_day(offset)

\* a loop body that nets the whole record.amount, splits included
period_record_effect_gross(session, record, isIncome) ==
    IF isIncome # None /\ record.isTransfer THEN Zero
    ELSE IF isIncome # None /\ record.isIncome # isIncome.some THEN Zero
    ELSE LET code == IF record.currencyCode # None THEN record.currencyCode.some
                     ELSE default_currency
             amount_default ==
                 IF code = default_currency THEN record.amount
                 ELSE convert(session.currency_rate, record.amount, code,
                              default_currency)
         IN  IF amount_default = None THEN Zero
             ELSE IF record.isTransfer THEN Zero
             ELSE IF record.isIncome THEN amount_default
             ELSE RatNeg(amount_default)

\* a loop body that adds the magnitude of every contribution to total
period_record_effect_magnitude(session, record, isIncome) ==
    IF isIncome # None /\ record.isTransfer THEN Zero
    ELSE IF isIncome # None /\ record.isIncome # isIncome.some THEN Zero
    ELSE LET record_amount == RatSub(record.amount, split_total(session, record))
             code == IF record.currencyCode # None THEN record.currencyCode.some
                     ELSE default_currency
             amount_default ==
                 IF code = default_currency THEN record_amount
                 ELSE convert(session.currency_rate, record_amount, code,
                              default_currency)
         IN  IF amount_default = None THEN Zero
             ELSE IF record.isTransfer THEN Zero
             ELSE RatAbs(amount_default)

\* get_period_figures, the loop body: what a record adds to total
period_record_effect(session, record, isIncome) ==
    IF isIncome # None /\ record.isTransfer THEN Zero
    ELSE IF isIncome # None /\ record.isIncome # isIncome.some THEN Zero
    ELSE LET record_amount == RatSub(record.amount, split_total(session, record))
             default_code == default_currency
             code == IF record.currencyCode # None THEN record.currencyCode.some
                     ELSE default_code
             amount_default ==
                 IF code = default_code THEN record_amount
                 ELSE convert(session.currency_rate, record_amount, code, default_code)
         IN  IF amount_default = None THEN Zero
             ELSE IF record.isTransfer THEN Zero
             ELSE IF record.isIncome THEN amount_default
             ELSE RatNeg(amount_default)

get_period_figures(session, accountId, offset_type, offset, isIncome, nature) ==
    LET by_account ==
            IF accountId # None
            THEN SelectSeq(session.record, LAMBDA r : r.accountId = accountId.some)
            ELSE session.record
        by_date ==
            IF offset_type # None /\ offset # None
            THEN LET period == get_start_end_of_period(offset.some, offset_type.some)
                 IN  SelectSeq(by_account,
                               LAMBDA r : r.date >= period[1] /\ r.date < period[2])
            ELSE by_account
        by_nature ==
            IF nature # None
            THEN SelectSeq(by_date,
                           LAMBDA r : /\ r.categoryId # None
                                      /\ get_by_id(session.category,
                                                   r.categoryId.some).nature = nature.some)
            ELSE by_date
        total == SumRat([i \in DOMAIN by_nature |->
                            period_record_effect(session, by_nature[i], isIncome)])
    IN  RatAbs(round(total, round_decimals))

\* an amount of currency code in the default currency, unchanged when it
\* cannot be converted
InDefaultCurrency(session, amount, code) ==
    LET converted == convert(session.currency_rate, amount, code, default_currency)
    IN  IF converted = None THEN amount ELSE converted

\* a loop body that converts the amount to the default currency
currency_bucket_entry_converted(session, record, isIncome) ==
    IF isIncome # None /\ record.isIncome # isIncome.some THEN None
    ELSE IF record.isTransfer THEN None
    ELSE LET code == IF record.currencyCode # None THEN record.currencyCode.some
                     ELSE default_currency
             record_amount ==
                 InDefaultCurrency(session, RatSub(record.amount, split_total(session, record)), code)
         IN  [code |-> code,
              income |-> IF record.isIncome THEN record_amount ELSE Zero,
              expense |-> IF record.isIncome THEN Zero ELSE record_amount]

\* get_period_totals_by_currency, the loop body: the bucket a record is added
\* to and what it adds; None for a record that is skipped
currency_bucket_entry(session, record, isIncome) ==
    IF isIncome # None /\ record.isIncome # isIncome.some THEN None
    ELSE IF record.isTransfer THEN None
    ELSE LET split_sum == split_total(session, record)
             record_amount == RatSub(record.amount, split_sum)
             default_code == default_currency
             code == IF record.currencyCode # None THEN record.currencyCode.some
                     ELSE default_code
         IN  [code |-> code,
              income |-> IF record.isIncome THEN record_amount ELSE Zero,
              expense |-> IF record.isIncome THEN Zero ELSE record_amount]

RECURSIVE currency_totals(_, _, _)
\* get_period_totals_by_currency, the loop: the buckets after the records of
\* the sequence, a bucket being made when its first record is reached
currency_totals(session, rs, isIncome) ==
    IF rs = <<>> THEN <<>>
    ELSE LET totals == currency_totals(session, SubSeq(rs, 1, Len(rs) - 1), isIncome)
             entry == currency_bucket_entry(session, rs[Len(rs)], isIncome)
         IN  IF entry = None THEN totals
             ELSE LET bucket == IF entry.code \in DOMAIN totals THEN totals[entry.code]
                                ELSE [income |-> Zero, expense |-> Zero]
                  IN  (entry.code :> [income |-> RatAdd(bucket.income, entry.income),
                                      expense |-> RatAdd(bucket.expense, entry.expense)])
                          @@ totals

\* get_period_totals_by_currency, the rounding of one bucket
rounded_bucket(bucket) ==
    LET income == round(bucket.income, round_decimals)
        expense == round(bucket.expense, round_decimals)
        net == round(RatSub(income, expense), round_decimals)
    IN  [income |-> income, expense |-> expense, net |-> net]

get_period_totals_by_currency(session, accountId, offset_type, offset, isIncome, nature) ==
    LET by_account ==
            IF accountId # None
            THEN SelectSeq(session.record, LAMBDA r : r.accountId = accountId.some)
            ELSE session.record
        by_date ==
            IF offset_type # None /\ offset # None
            THEN LET period == get_start_end_of_period(offset.some, offset_type.some)
                 IN  SelectSeq(by_account,
                               LAMBDA r : r.date >= period[1] /\ r.date < period[2])
            ELSE by_account
        by_nature ==
            IF nature # None
            THEN SelectSeq(by_date,
                           LAMBDA r : /\ r.categoryId # None
                                      /\ get_by_id(session.category,
                                                   r.categoryId.some).nature = nature.some)
            ELSE by_date
        totals == currency_totals(session, by_nature, isIncome)
    IN  [code \in {c \in DOMAIN totals :
                      ~(/\ rounded_bucket(totals[c]).income = Zero
                        /\ rounded_bucket(totals[c]).expense = Zero)} |->
            rounded_bucket(totals[code])]

GetPeriodTotalsByCurrency(accountId, offset_type, offset, isIncome, nature) ==
    /\ lastQuery' = [op |-> "get_period_totals_by_currency", accountId |-> accountId,
                     offset_type |-> offset_type, offset |-> offset,
                     isIncome |-> isIncome, nature |-> nature,
                     result |-> get_period_totals_by_currency(CurrentSession, accountId,
                                    offset_type, offset, isIncome, nature)]
    /\ UNCHANGED <<storeVars, concVars, ledgerVars>>

GetPeriodFigures(accountId, offset_type, offset, isIncome, nature) ==
    /\ lastQuery' = [op |-> "get_period_figures", accountId |-> accountId,
                     offset_type |-> offset_type, offset |-> offset,
                     isIncome |-> isIncome, nature |-> nature,
                     result |-> get_period_figures(CurrentSession, accountId,
                                                   offset_type, offset, isIncome, nature)]
    /\ UNCHANGED <<storeVars, concVars, ledgerVars>>

(***************************************************************************)
(* Figure specification: categorised incomes and expenses of two accounts, *)
(* with and without splits, today and yesterday, and a transfer; and       *)
(* get_period_figures under its filters                                    *)
(***************************************************************************)
FigCurrencies == {None, Some(EUR)}

FigRecords ==
    LET today == midnight(datetime_now)
        yesterday == today - days(1)
    IN  UNION {{record_data(Int2Rat(100), c, today, 2, Some(1), TRUE, FALSE, None),
                record_data(Int2Rat(50), c, today, 2, Some(1), FALSE, FALSE, None)}
               : c \in FigCurrencies}
        \cup {record_data(Int2Rat(100), Some(EUR), today, 3, None, TRUE, FALSE, None),
              record_data(Int2Rat(50), None, today, 3, Some(2), FALSE, FALSE, None),
              record_data(Int2Rat(50), None, yesterday, 2, Some(1), FALSE, FALSE, None),
              record_data(Int2Rat(50), Some(IDR), today, 2, Some(1), FALSE, FALSE, None),
              record_data(Int2Rat(30), Some(EUR), today, 2, None, FALSE, TRUE, Some(3))}

\* no split, or (for the records of account 2 in a category, dated today, in
\* a convertible currency) a paid split together with an unpaid one
FigSplits(data) ==
    IF data.accountId = 2 /\ data.categoryId # None
       /\ data.date = midnight(datetime_now) /\ data.currencyCode # Some(IDR)
    THEN {<<>>,
          <<split_data(Rat(1234, 100), Some(3), TRUE, None),
            split_data(Int2Rat(5), None, FALSE, None)>>}
    ELSE {<<>>}

FigFilters == {None, Some(TRUE), Some(FALSE)}

FigPeriods == {<<None, None>>, <<Some("day"), Some(0)>>, <<Some("day"), Some(-1)>>,
               <<Some("week"), Some(0)>>}

NextFig ==
    \/ \E data \in FigRecords : \E splits_data \in FigSplits(data) :
            CreateRecordAndSplits(data, splits_data)
    \/ \E period \in FigPeriods, isIncome \in FigFilters :
            GetPeriodFigures(None, period[1], period[2], isIncome, None)
    \/ \E accountId \in {None, Some(2)}, nature \in {None, Some("Need")},
          isIncome \in FigFilters :
            GetPeriodFigures(accountId, None, None, isIncome, nature)

SpecFig == InitLedger /\ [][NextFig]_vars

\* the same records under get_period_totals_by_currency
NextCur ==
    \/ \E data \in FigRecords : \E splits_data \in FigSplits(data) :
            CreateRecordAndSplits(data, splits_data)
    \/ \E period \in {<<None, None>>, <<Some("day"), Some(0)>>},
          accountId \in {None, Some(2)}, isIncome \in FigFilters :
            GetPeriodTotalsByCurrency(accountId, period[1], period[2], isIncome, None)

SpecCur == InitLedger /\ [][NextCur]_vars

\* the record is in the period of the query (every record when the query
\* names no period), under the filter start <= date < end
InPeriod(when, query) ==
    \/ query.offset_type = None
    \/ query.offset = None
    \/ LET period == get_start_end_of_period(query.offset.some, query.offset_type.some)
       IN  period[1] <= when /\ when < period[2]

\* the record matches the optional account and nature filters of the query
MatchesFilters(i, query) ==
    /\ query.accountId # None => records[i].accountId = query.accountId.some
    /\ query.nature # None =>
          /\ records[i].categoryId # None
          /\ categories[records[i].categoryId.some].nature = query.nature.some

\* record.amount minus the amounts of all its splits, paid or not
SelfPortion(i) ==
    RatSub(records[i].amount,
           SumOver([j \in DOMAIN splits |-> splits[j].amount],
                   {j \in DOMAIN splits : splits[j].recordId = records[i].id}))

\* C10: with an isIncome filter, get_period_figures returns the absolute value
\* of the sum, over the non-transfer records of the period whose isIncome
\* equals the filter and that match the account and nature filters, of the
\* self-portion converted to the default currency (rounded to round_decimals);
\* transfers contribute nothing.
C10_FilteredFigureIsSumOfSelfPortions ==
    (lastQuery # None /\ lastQuery.op = "get_period_figures"
        /\ lastQuery.isIncome # None) =>
        LET matching == {i \in DOMAIN records :
                            /\ ~records[i].isTransfer
                            /\ records[i].isIncome = lastQuery.isIncome.some
                            /\ InPeriod(records[i].date, lastQuery)
                            /\ MatchesFilters(i, lastQuery)}
            portion == [i \in matching |->
                           InDefault(SelfPortion(i), records[i].currencyCode)]
        IN  lastQuery.result = RatAbs(round(SumOver(portion, matching), round_decimals))

\* C10 witness: one expense of 50 EUR without splits, EUR->USD = 1.1:
\* get_period_figures(isIncome=False) returns 55.
C10_Witness ==
    /\ lastQuery # None /\ lastQuery.op = "get_period_figures"
    /\ lastQuery.isIncome = Some(FALSE)
    /\ Len(records) = 1 /\ splits = <<>>
    /\ ~records[1].isIncome /\ ~records[1].isTransfer
    /\ records[1].amount = Int2Rat(50) /\ records[1].currencyCode = Some(EUR)
    /\ get_rate(db, EUR, USD) = Rat(11, 10)
    /\ lastQuery.result = Int2Rat(55)

\* a filtered figure over a record with splits and a transfer: the figure is
\* the converted self-portion, not the amount
FigureOfSplitRecord ==
    /\ lastQuery # None /\ lastQuery.op = "get_period_figures"
    /\ lastQuery.isIncome = Some(FALSE) /\ lastQuery.nature = Some("Need")
    /\ Len(records) = 2 /\ Len(splits) = 2
    /\ records[1].isTransfer
    /\ records[2].currencyCode = Some(EUR)
    /\ lastQuery.result = round(RatMul(RatSub(Int2Rat(50), Rat(1734, 100)), LedgerRate),
                                round_decimals)

\* the sum of the converted self-portions of the non-transfer records of the
\* query's period and filters whose isIncome flag is income
PortionSum(query, income) ==
    LET matching == {i \in DOMAIN records :
                        /\ ~records[i].isTransfer
                        /\ records[i].isIncome = income
                        /\ InPeriod(records[i].date, query)
                        /\ MatchesFilters(i, query)}
        portion == [i \in matching |->
                       InDefault(SelfPortion(i), records[i].currencyCode)]
    IN  SumOver(portion, matching)

NegativeNetFigure ==
    /\ lastQuery # None /\ lastQuery.op = "get_period_figures"
    /\ lastQuery.isIncome = None
    /\ RatLt(PortionSum(lastQuery, TRUE), PortionSum(lastQuery, FALSE))
    /\ RatLt(Zero, lastQuery.result)

\* the sum of the unconverted self-portions of the non-transfer records of
\* the query's period and filters that are in currency code (a record without
\* currencyCode is in the default currency) and whose isIncome flag is income
OwnCurrencySum(query, code, income) ==
    LET matching == {i \in DOMAIN records :
                        /\ ~records[i].isTransfer
                        /\ records[i].isIncome = income
                        /\ query.isIncome # None => income = query.isIncome.some
                        /\ InPeriod(records[i].date, query)
                        /\ MatchesFilters(i, query)
                        /\ code = IF records[i].currencyCode = None
                                  THEN default_currency
                                  ELSE records[i].currencyCode.some}
    IN  SumOver([i \in matching |-> SelfPortion(i)], matching)

\* C13: get_period_totals_by_currency converts nothing: the income and the
\* expense of a currency are the sums of the self-portions of the non-transfer
\* records in that currency (the default one for a record without code),
\* rounded; the result holds exactly the currencies whose income or expense
\* is not zero, and net = income - expense for each.
C13_TotalsByCurrencyUnconverted ==
    (lastQuery # None /\ lastQuery.op = "get_period_totals_by_currency") =>
        LET income(c) == round(OwnCurrencySum(lastQuery, c, TRUE), round_decimals)
            expense(c) == round(OwnCurrencySum(lastQuery, c, FALSE), round_decimals)
        IN  /\ DOMAIN lastQuery.result =
                  {c \in CleanCodes : income(c) # Zero \/ expense(c) # Zero}
            /\ \A c \in DOMAIN lastQuery.result :
                  /\ lastQuery.result[c].income = income(c)
                  /\ lastQuery.result[c].expense = expense(c)
                  /\ lastQuery.result[c].net = RatSub(income(c), expense(c))

\* C13 witness: totals over an expense in EUR (a rate is stored) and one in
\* IDR (no rate is stored): each is in the bucket of its own currency with its
\* own amount.
C13_Witness ==
    /\ lastQuery # None /\ lastQuery.op = "get_period_totals_by_currency"
    /\ DOMAIN lastQuery.result = {EUR, IDR}
    /\ get_rate(db, EUR, default_currency) # None
    /\ get_rate(db, IDR, default_currency) = None
    /\ lastQuery.result[EUR].expense = RatSub(Int2Rat(50), Rat(1734, 100))
    /\ lastQuery.result[IDR].expense = Int2Rat(50)
    /\ lastQuery.result[IDR].net = Int2Rat(-50)

(***************************************************************************)
(* managers/categories.py                                                  *)
(***************************************************************************)
\* a loop body that counts every record under its own category
category_entry_own_category(session, record, subcategories) ==
    LET record_amount == RatSub(record.amount, split_total(session, record))
        code == IF record.currencyCode # None THEN record.currencyCode.some
                ELSE default_currency
        amount_default ==
            IF code = default_currency THEN record_amount
            ELSE convert(session.currency_rate, record_amount, code, default_currency)
    IN  IF amount_default = None THEN None
        ELSE IF record.categoryId = None THEN None
        ELSE [category_id |-> record.categoryId.some, amount |-> amount_default]

\* get_all_categories_records, the first loop's body: the category a record
\* is counted under and the amount it adds; None for a record that is skipped
category_entry(session, record, subcategories) ==
    LET record_amount == RatSub(record.amount, split_total(session, record))
        default_code == default_currency
        code == IF record.currencyCode # None THEN record.currencyCode.some
                ELSE default_code
        amount_default ==
            IF code = default_code THEN record_amount
            ELSE convert(session.currency_rate, record_amount, code, default_code)
    IN  IF amount_default = None THEN None
        ELSE IF record.categoryId = None THEN None
        ELSE LET category == get_by_id(session.category, record.categoryId.some)
             IN  [category_id |-> IF ~subcategories /\ category.parentCategoryId # None
                                  THEN category.parentCategoryId.some
                                  ELSE record.categoryId.some,
                  amount |-> amount_default]

RECURSIVE insert_by_amount(_, _)
\* puts c behind the entries of sorted whose amount is not smaller
insert_by_amount(sorted, c) ==
    IF sorted = <<>> THEN <<c>>
    ELSE IF RatLt(Head(sorted).amount, c.amount) THEN <<c>> \o sorted
    ELSE <<Head(sorted)>> \o insert_by_amount(Tail(sorted), c)

RECURSIVE sort_by_amount(_)
\* list.sort(key=lambda cat: cat.amount, reverse=True): largest first, stable
sort_by_amount(seq) ==
    IF seq = <<>> THEN <<>>
    ELSE insert_by_amount(sort_by_amount(SubSeq(seq, 1, Len(seq) - 1)), seq[Len(seq)])

get_all_categories_records(session, offset, offset_type, is_income, subcategories, account_id) ==
    LET period == get_start_end_of_period(offset, offset_type)
        by_account ==
            IF account_id # None
            THEN SelectSeq(session.record, LAMBDA r : r.accountId = account_id.some)
            ELSE session.record
        selected ==
            SelectSeq(by_account,
                      LAMBDA r : /\ r.date >= period[1] /\ r.date < period[2]
                                 /\ r.isIncome = is_income)
        entries == [i \in DOMAIN selected |->
                        category_entry(session, selected[i], subcategories)]
        counted == {i \in DOMAIN selected : entries[i] # None}
        keys == {entries[i].category_id : i \in counted}
        category_totals ==
            [k \in keys |->
                SumRat([i \in DOMAIN selected |->
                           IF i \in counted /\ entries[i].category_id = k
                           THEN entries[i].amount ELSE Zero])]
        found == SelectSeq(session.category,
                           LAMBDA c : c.id \in keys /\ c.deletedAt = None)
        with_amount == [i \in DOMAIN found |->
                           [id |-> found[i].id, amount |-> category_totals[found[i].id]]]
    IN  sort_by_amount(SelectSeq(with_amount, LAMBDA c : c.amount # Zero))

\* delete_category: the category and its subcategories are marked deleted
delete_category(table, category_id, now) ==
    IF \E i \in DOMAIN table : table[i].id = category_id
    THEN [i \in DOMAIN table |->
            IF table[i].id = category_id \/ table[i].parentCategoryId = Some(category_id)
            THEN [table[i] EXCEPT !.deletedAt = Some(now)]
            ELSE table[i]]
    ELSE table

DeleteCategory(category_id) ==
    /\ categories' = delete_category(categories, category_id, datetime_now)
    /\ lastQuery' = None
    /\ UNCHANGED <<storeVars, concVars, accounts, records, splits, datetime_now, appVars>>

(***************************************************************************)
(* managers/records.py: the daily series                                   *)
(***************************************************************************)
_get_spending_records(session, start_date, end_date) ==
    SelectSeq(session.record,
              LAMBDA r : /\ ~r.isIncome
                         /\ r.date >= start_date /\ r.date < end_date
                         /\ ~r.isTransfer)

\* _calculate_daily_spending, the first loop's body: what a record adds to
\* the spending of its day
spending_amount(session, record) ==
    LET record_amount == RatSub(record.amount, split_total(session, record))
        default_code == default_currency
        code == IF record.currencyCode # None THEN record.currencyCode.some
                ELSE default_code
        amount_default ==
            IF code = default_code THEN record_amount
            ELSE convert(session.currency_rate, record_amount, code, default_code)
    IN  IF amount_default = None THEN Zero ELSE amount_default

RECURSIVE spending_series(_, _, _, _, _, _)
\* _calculate_daily_spending, the second loop, from current_date on
spending_series(session, spending_records, current_date, end_date_normalized, cumulative, running_total) ==
    IF current_date > end_date_normalized THEN <<>>
    ELSE IF current_date <= date(datetime_now)
    THEN LET daily_amount ==
                 SumRat([i \in DOMAIN spending_records |->
                            IF date(spending_records[i].date) = current_date
                            THEN spending_amount(session, spending_records[i])
                            ELSE Zero])
             total == RatAdd(running_total, daily_amount)
         IN  <<IF cumulative THEN total ELSE daily_amount>>
             \o spending_series(session, spending_records, current_date + 1,
                                end_date_normalized, cumulative, total)
    ELSE spending_series(session, spending_records, current_date + 1,
                         end_date_normalized, cumulative, running_total)

_calculate_daily_spending(session, spending_records, start_date, end_date, cumulative) ==
    spending_series(session, spending_records, date(start_date), date(end_date),
                    cumulative, Zero)

get_spending(session, start_date, end_date) ==
    _calculate_daily_spending(session,
                              _get_spending_records(session, start_date, end_date),
                              start_date, end_date, FALSE)

get_spending_trend(session, start_date, end_date) ==
    _calculate_daily_spending(session,
                              _get_spending_records(session, start_date, end_date),
                              start_date, end_date, TRUE)

\* a base effect that leaves the record's splits with the record
base_effect_gross(session, r) ==
    IF r.isTransfer
    THEN IF /\ r.transferToAccountId # None
            /\ get_by_id(session.account, r.transferToAccountId.some).name
                   = "Outside source"
         THEN RatNeg(r.amount)
         ELSE IF get_by_id(session.account, r.accountId).name = "Outside source"
         THEN r.amount
         ELSE Zero
    ELSE IF r.isIncome THEN r.amount
    ELSE RatNeg(r.amount)

\* the base effect of a record in get_daily_balance, in its own currency
base_effect(session, r) ==
    IF r.isTransfer
    THEN IF /\ r.transferToAccountId # None
            /\ get_by_id(session.account, r.transferToAccountId.some).name
                   = "Outside source"
         THEN RatNeg(r.amount)
         ELSE IF get_by_id(session.account, r.accountId).name = "Outside source"
         THEN r.amount
         ELSE Zero
    ELSE IF r.isIncome THEN RatSub(r.amount, split_total(session, r))
    ELSE RatAdd(RatNeg(r.amount), split_total(session, r))

\* an adjust_balance that counts what it cannot convert at one to one
adjust_balance_one_to_one(session, r) ==
    LET code == IF r.currencyCode # None THEN r.currencyCode.some
                ELSE default_currency
        converted == convert(session.currency_rate, base_effect(session, r), code,
                             default_currency)
    IN  IF code = default_currency \/ converted = None THEN base_effect(session, r)
        ELSE converted

\* get_daily_balance.adjust_balance
adjust_balance(session, r) ==
    LET default_code == default_currency
        code == IF r.currencyCode # None THEN r.currencyCode.some ELSE default_code
        converted == convert(session.currency_rate, base_effect(session, r), code,
                             default_code)
    IN  IF code = default_code THEN base_effect(session, r)
        ELSE IF converted = None THEN Zero
        ELSE converted

RECURSIVE balance_series(_, _, _, _, _)
\* get_daily_balance, the loop over the days, from current on
balance_series(session, account_ids, current, end_date, total_balance) ==
    IF current > end_date \/ current > datetime_now THEN <<>>
    ELSE LET day_records ==
                 SelectSeq(session.record,
                           LAMBDA r : /\ date(r.date) = date(current)
                                      /\ r.accountId \in account_ids)
             day_effect == SumRat([i \in DOMAIN day_records |->
                                      adjust_balance(session, day_records[i])])
             balance == RatAdd(total_balance, day_effect)
         IN  <<balance>> \o balance_series(session, account_ids, current + days(1),
                                           end_date, balance)

get_daily_balance(session, start_date, end_date) ==
    LET live == SelectSeq(session.account, LAMBDA a : a.deletedAt = None)
        account_ids == {live[i].id : i \in DOMAIN live}
        beginning == SumRat([i \in DOMAIN live |-> live[i].beginningBalance])
        old_records ==
            SelectSeq(session.record,
                      LAMBDA r : r.date < start_date /\ r.accountId \in account_ids)
        total_balance ==
            RatAdd(beginning,
                   SumRat([i \in DOMAIN old_records |->
                              adjust_balance(session, old_records[i])]))
    IN  balance_series(session, account_ids, start_date, end_date, total_balance)

(***************************************************************************)
(* The aggregations as operations on the current database                  *)
(***************************************************************************)
\* the result of the aggregation call query on the database session
Evaluate(query, session) ==
    CASE query.op = "get_account_balance" ->
            get_account_balance(session, query.accountId)
      [] query.op = "get_period_figures" ->
            get_period_figures(session, query.accountId, query.offset_type,
                               query.offset, query.isIncome, query.nature)
      [] query.op = "get_all_categories_records" ->
            get_all_categories_records(session, query.offset, query.offset_type,
                                       query.is_income, query.subcategories,
                                       query.account_id)
      [] query.op = "get_spending" ->
            get_spending(session, query.start_date, query.end_date)
      [] query.op = "get_spending_trend" ->
            get_spending_trend(session, query.start_date, query.end_date)
      [] query.op = "get_daily_balance" ->
            get_daily_balance(session, query.start_date, query.end_date)

GetAllCategoriesRecords(offset, offset_type, is_income, subcategories, account_id) ==
    /\ lastQuery' = [op |-> "get_all_categories_records", offset |-> offset,
                     offset_type |-> offset_type, is_income |-> is_income,
                     subcategories |-> subcategories, account_id |-> account_id,
                     result |-> get_all_categories_records(CurrentSession, offset,
                                    offset_type, is_income, subcategories, account_id)]
    /\ UNCHANGED <<storeVars, concVars, ledgerVars>>

GetSpending(start_date, end_date) ==
    /\ lastQuery' = [op |-> "get_spending", start_date |-> start_date,
                     end_date |-> end_date,
                     result |-> get_spending(CurrentSession, start_date, end_date)]
    /\ UNCHANGED <<storeVars, concVars, ledgerVars>>

GetSpendingTrend(start_date, end_date) ==
    /\ lastQuery' = [op |-> "get_spending_trend", start_date |-> start_date,
                     end_date |-> end_date,
                     result |-> get_spending_trend(CurrentSession, start_date, end_date)]
    /\ UNCHANGED <<storeVars, concVars, ledgerVars>>

GetDailyBalance(start_date, end_date) ==
    /\ lastQuery' = [op |-> "get_daily_balance", start_date |-> start_date,
                     end_date |-> end_date,
                     result |-> get_daily_balance(CurrentSession, start_date, end_date)]
    /\ UNCHANGED <<storeVars, concVars, ledgerVars>>

(***************************************************************************)
(* Skip specification: every kind of record in a currency with a rate and  *)
(* in one without, and the five aggregations                               *)
(***************************************************************************)
\* an expense in a category, an expense of yesterday in a subcategory, an
\* income, a transfer to 'Outside source' and a transfer from it, each in IDR
\* (no rate) and in a currency that converts
SkipRecords ==
    LET today == midnight(datetime_now)
        yesterday == today - days(1)
    IN  UNION {{record_data(Int2Rat(50), c, today, 2, Some(1), FALSE, FALSE, None),
                record_data(Int2Rat(100), c, today, 2, Some(1), TRUE, FALSE, None),
                record_data(Int2Rat(30), c, today, 2, None, FALSE, TRUE, Some(1))}
               : c \in {Some(EUR), Some(IDR)}}
        \cup UNION {{record_data(Int2Rat(50), c, yesterday, 3, Some(2), FALSE, FALSE, None),
                     record_data(Int2Rat(30), c, yesterday, 1, None, FALSE, TRUE, Some(3))}
                    : c \in {None, Some(<<"i", "d", "r">>)}}

\* no split, or (for today's expenses) a paid split in the record's currency
SkipSplits(data) ==
    IF ~data.isIncome /\ ~data.isTransfer /\ data.date = midnight(datetime_now)
    THEN {<<>>, <<split_data(Rat(1234, 100), Some(3), TRUE, None)>>}
    ELSE {<<>>}

\* the days the series are asked for: yesterday and today
SkipStart == midnight(datetime_now) - days(1)

SkipEnd == last_second(datetime_now)

NextSkip ==
    \/ \E data \in SkipRecords : \E splits_data \in SkipSplits(data) :
            CreateRecordAndSplits(data, splits_data)
    \/ \E accountId \in {2, 3} : GetAccountBalance(accountId)
    \/ \E isIncome \in {None, Some(FALSE)} :
            GetPeriodFigures(None, Some("week"), Some(0), isIncome, None)
    \/ \E subcategories \in BOOLEAN :
            GetAllCategoriesRecords(0, "week", FALSE, subcategories, None)
    \/ GetSpending(SkipStart, SkipEnd)
    \/ GetSpendingTrend(SkipStart, SkipEnd)
    \/ GetDailyBalance(SkipStart, SkipEnd)

SpecSkip == InitLedger /\ [][NextSkip]_vars

\* the record's currency has neither a direct nor a reverse stored rate to
\* the default currency
Unconvertible(record) ==
    /\ record.currencyCode # None
    /\ record.currencyCode.some # default_currency
    /\ RowsFor(record.currencyCode.some, default_currency) = {}
    /\ RowsFor(default_currency, record.currencyCode.some) = {}

\* the database without record i (and without the splits that belong to it)
Without(i) ==
    Database(accounts, categories,
             SelectSeq(records, LAMBDA r : r.id # records[i].id),
             SelectSeq(splits, LAMBDA sp : sp.recordId # records[i].id),
             db)

AggregationOps == {"get_account_balance", "get_period_figures",
                   "get_all_categories_records", "get_spending",
                   "get_spending_trend", "get_daily_balance"}

CatRecords ==
    LET today == midnight(datetime_now)
        last_week == today - days(7)
    IN  {record_data(Int2Rat(50), None, today, 2, Some(1), FALSE, FALSE, None),
         record_data(Int2Rat(80), Some(EUR), today, 2, Some(2), FALSE, FALSE, None),
         record_data(Int2Rat(50), None, today, 3, Some(2), FALSE, FALSE, None),
         record_data(Int2Rat(100), None, today, 2, Some(1), TRUE, FALSE, None),
         record_data(Int2Rat(100), Some(EUR), today, 2, Some(2), TRUE, FALSE, None),
         record_data(Int2Rat(20), None, today, 2, None, FALSE, FALSE, None),
         record_data(Int2Rat(30), None, today, 2, Some(2), FALSE, TRUE, Some(3)),
         record_data(Int2Rat(50), None, last_week, 2, Some(1), FALSE, FALSE, None),
         record_data(Int2Rat(50), Some(IDR), today, 2, Some(1), FALSE, FALSE, None)}

\* no split, or (for the expense of 80 EUR) a paid split in the record's currency
CatSplits(data) ==
    IF data.amount = Int2Rat(80)
    THEN {<<>>, <<split_data(Rat(1234, 100), Some(3), TRUE, None)>>}
    ELSE {<<>>}

NextCat ==
    \/ \E data \in CatRecords : \E splits_data \in CatSplits(data) :
            CreateRecordAndSplits(data, splits_data)
    \/ \E category_id \in {1, 2} : DeleteCategory(category_id)
    \/ \E is_income \in BOOLEAN, subcategories \in BOOLEAN, account_id \in {None, Some(2)} :
            GetAllCategoriesRecords(0, "week", is_income, subcategories, account_id)

SpecCat == InitLedger /\ [][NextCat]_vars

\* the category record i is attributed to: the parent of its category when
\* subcategories are not asked for and there is a parent, else its category
AttributedTo(i, subcategories) ==
    LET category == categories[records[i].categoryId.some]
    IN  IF ~subcategories /\ category.parentCategoryId # None
        THEN category.parentCategoryId.some
        ELSE category.id

\* the sum of the converted self-portions of the records of the query's
\* period (and account) with the asked isIncome flag attributed to category k
CategoryTotal(query, k) ==
    LET period == get_start_end_of_period(query.offset, query.offset_type)
        counted == {i \in DOMAIN records :
                       /\ period[1] <= records[i].date /\ records[i].date < period[2]
                       /\ records[i].isIncome = query.is_income
                       /\ query.account_id # None =>
                             records[i].accountId = query.account_id.some
                       /\ records[i].categoryId # None
                       /\ AttributedTo(i, query.subcategories) = k}
    IN  SumOver([i \in counted |-> InDefault(SelfPortion(i), records[i].currencyCode)],
                counted)

\* C14: get_all_categories_records returns one entry for each non-deleted
\* category whose total is not zero and no other entry; the total is the sum
\* of the converted self-portions of the period's records with the asked
\* isIncome flag, a record of a subcategory counting for the parent category
\* without subcategories and for its own category with them, a record without
\* category counting nowhere; the entries are in decreasing order of amount.
C14_CategoryTotals ==
    (lastQuery # None /\ lastQuery.op = "get_all_categories_records") =>
        LET result == lastQuery.result
            live == {k \in DOMAIN categories :
                        /\ categories[k].deletedAt = None
                        /\ CategoryTotal(lastQuery, k) # Zero}
        IN  /\ {result[n].id : n \in DOMAIN result} = live
            /\ Len(result) = Cardinality(live)
            /\ \A n \in DOMAIN result :
                  result[n].amount = CategoryTotal(lastQuery, result[n].id)
            /\ \A n \in 1..(Len(result) - 1) :
                  ~RatLt(result[n].amount, result[n + 1].amount)

\* C14 witness: the expense totals with subcategories after an expense in the
\* parent category and a larger one in its subcategory: two entries, the
\* subcategory first.
C14_Witness ==
    /\ lastQuery # None /\ lastQuery.op = "get_all_categories_records"
    /\ lastQuery.subcategories /\ ~lastQuery.is_income
    /\ Len(lastQuery.result) = 2
    /\ lastQuery.result[1].id = 2 /\ lastQuery.result[2].id = 1
    /\ RatLt(lastQuery.result[2].amount, lastQuery.result[1].amount)

\* the totals without subcategories of a record of the subcategory and one of
\* the parent: one entry, of the parent, holding both
C14_WitnessRollup ==
    /\ lastQuery # None /\ lastQuery.op = "get_all_categories_records"
    /\ ~lastQuery.subcategories
    /\ \E i, j \in DOMAIN records :
          /\ records[i].categoryId = Some(1) /\ records[j].categoryId = Some(2)
          /\ records[i].isIncome = records[j].isIncome
    /\ Len(lastQuery.result) = 1
    /\ lastQuery.result[1].id = 1
    /\ RatLt(Int2Rat(100), lastQuery.result[1].amount)

\* the totals after the deletion of a category that holds a record: no entry
C14_WitnessDeleted ==
    /\ lastQuery # None /\ lastQuery.op = "get_all_categories_records"
    /\ \E k \in DOMAIN categories :
          /\ categories[k].deletedAt # None
          /\ CategoryTotal(lastQuery, k) # Zero
          /\ \A n \in DOMAIN lastQuery.result : lastQuery.result[n].id # k

(***************************************************************************)
(* Series specification: records at several times of yesterday, today and  *)
(* tomorrow, and the three daily series over ranges that start and end at  *)
(* midnight or within a day                                                *)
(***************************************************************************)
SeriesRecords ==
    LET today == midnight(datetime_now)
        yesterday == today - days(1)
        tomorrow == today + days(1)
        morning == 8 * 60 * 60
    IN  {record_data(Int2Rat(50), None, yesterday + morning, 2, Some(1), FALSE, FALSE, None),
         record_data(Int2Rat(50), None, today, 2, Some(1), FALSE, FALSE, None),
         record_data(Int2Rat(80), Some(EUR), today + morning, 2, Some(1), FALSE, FALSE, None),
         record_data(Int2Rat(50), None, last_second(today), 3, Some(2), FALSE, FALSE, None),
         record_data(Int2Rat(100), None, today + morning, 3, None, TRUE, FALSE, None),
         record_data(Int2Rat(30), None, yesterday + morning, 2, None, FALSE, TRUE, Some(1)),
         record_data(Int2Rat(30), None, today, 1, None, FALSE, TRUE, Some(3)),
         record_data(Int2Rat(30), None, today + morning, 2, None, FALSE, TRUE, Some(3)),
         record_data(Int2Rat(20), None, tomorrow, 2, Some(1), FALSE, FALSE, None)}

\* no split, or (for the expense of 80 EUR) a paid split in the record's currency
SeriesSplits(data) ==
    IF data.amount = Int2Rat(80)
    THEN {<<>>, <<split_data(Rat(1234, 100), Some(3), TRUE, None)>>}
    ELSE {<<>>}

\* start_date: yesterday at 00:00, at 10:00 and at 13:00
SeriesStarts ==
    LET yesterday == midnight(datetime_now) - days(1)
    IN  {yesterday, yesterday + 10 * 60 * 60, yesterday + 13 * 60 * 60}

\* end_date: today at 00:00 and at 23:59:59, tomorrow at 23:59:59
SeriesEnds ==
    {midnight(datetime_now), last_second(datetime_now),
     last_second(datetime_now) + days(1)}

NextSeries ==
    \/ \E data \in SeriesRecords : \E splits_data \in SeriesSplits(data) :
            CreateRecordAndSplits(data, splits_data)
    \/ \E start_date \in SeriesStarts, end_date \in SeriesEnds :
            GetSpending(start_date, end_date)
    \/ \E start_date \in SeriesStarts, end_date \in SeriesEnds :
            GetSpendingTrend(start_date, end_date)
    \/ \E start_date \in SeriesStarts, end_date \in SeriesEnds :
            GetDailyBalance(start_date, end_date)

SpecSeries == InitLedger /\ [][NextSeries]_vars

\* the calendar day of the n-th element of a series that starts at start_date
DayOf(start_date, n) == date(start_date) + n - 1

\* the sum of the converted self-portions of the non-transfer expense records
\* dated on day d
SpendingOn(d) ==
    LET spent == {i \in DOMAIN records :
                     /\ ~records[i].isIncome /\ ~records[i].isTransfer
                     /\ date(records[i].date) = d}
    IN  SumOver([i \in spent |-> InDefault(SelfPortion(i), records[i].currencyCode)],
                spent)

RECURSIVE RunningSum(_, _)
\* the sum of the first n elements of seq
RunningSum(seq, n) == IF n = 0 THEN Zero ELSE RatAdd(RunningSum(seq, n - 1), seq[n])

\* C15: the element of get_spending for day d is the sum of the converted
\* self-portions of the non-transfer expense records dated on d, and the
\* element of get_spending_trend at a position is the sum of the elements of
\* get_spending over the same range up to that position.
C15_DailySpending ==
    /\ (lastQuery # None /\ lastQuery.op = "get_spending") =>
          \A n \in DOMAIN lastQuery.result :
              lastQuery.result[n] = SpendingOn(DayOf(lastQuery.start_date, n))
    /\ (lastQuery # None /\ lastQuery.op = "get_spending_trend") =>
          LET daily == get_spending(CurrentSession, lastQuery.start_date,
                                    lastQuery.end_date)
          IN  /\ Len(lastQuery.result) = Len(daily)
              /\ \A n \in DOMAIN lastQuery.result :
                    lastQuery.result[n] = RunningSum(daily, n)

\* the cumulative half of C15 alone
CumulativeIsRunningSum ==
    (lastQuery # None /\ lastQuery.op = "get_spending_trend") =>
        LET daily == get_spending(CurrentSession, lastQuery.start_date,
                                  lastQuery.end_date)
        IN  /\ Len(lastQuery.result) = Len(daily)
            /\ \A n \in DOMAIN lastQuery.result :
                  lastQuery.result[n] = RunningSum(daily, n)

\* the daily half of C15 for the records that lie within
\* start_date <= date < end_date
DailySpendingWithinRange ==
    (lastQuery # None /\ lastQuery.op = "get_spending"
        /\ \A i \in DOMAIN records :
              (~records[i].isIncome /\ ~records[i].isTransfer
               /\ date(records[i].date) >= date(lastQuery.start_date)
               /\ date(records[i].date) <= date(lastQuery.end_date)) =>
                  (records[i].date >= lastQuery.start_date
                   /\ records[i].date < lastQuery.end_date)) =>
        \A n \in DOMAIN lastQuery.result :
            lastQuery.result[n] = SpendingOn(DayOf(lastQuery.start_date, n))

\* the effect of record i on the total balance, in the default currency
BalanceEffect(i) ==
    LET r == records[i]
        own == IF r.isTransfer
               THEN IF r.transferToAccountId # None
                       /\ accounts[r.transferToAccountId.some].name = "Outside source"
                    THEN RatNeg(r.amount)
                    ELSE IF accounts[r.accountId].name = "Outside source"
                    THEN r.amount
                    ELSE Zero
               ELSE IF r.isIncome THEN SelfPortion(i)
               ELSE RatNeg(SelfPortion(i))
    IN  InDefault(own, r.currencyCode)

\* the beginning balances of the non-deleted accounts plus the effect, once,
\* of every record of those accounts dated on day d or before
BalanceOn(d) ==
    LET live == {a \in DOMAIN accounts : accounts[a].deletedAt = None}
        counted == {i \in DOMAIN records :
                       records[i].accountId \in live /\ date(records[i].date) <= d}
    IN  RatAdd(SumOver([a \in live |-> accounts[a].beginningBalance], live),
               SumOver([i \in counted |-> BalanceEffect(i)], counted))

\* C16: whatever the time of day of start_date, the element of
\* get_daily_balance for day d is the sum of the beginning balances of the
\* non-deleted accounts plus the effect, counted once, of every record of
\* those accounts dated on d or before: + self-portion for an income,
\* - self-portion for an expense, - amount for a transfer to "Outside source",
\* + amount for a transfer from it, nothing for another transfer.
C16_DailyBalance ==
    (lastQuery # None /\ lastQuery.op = "get_daily_balance") =>
        \A n \in DOMAIN lastQuery.result :
            lastQuery.result[n] = BalanceOn(DayOf(lastQuery.start_date, n))

\* C16 for a start_date at midnight
DailyBalanceFromMidnight ==
    (lastQuery # None /\ lastQuery.op = "get_daily_balance"
        /\ lastQuery.start_date = midnight(lastQuery.start_date)) =>
        \A n \in DOMAIN lastQuery.result :
            lastQuery.result[n] = BalanceOn(DayOf(lastQuery.start_date, n))

\* the number of calendar days from that of start_date to the earlier of that
\* of end_date and today
DaysInRange(start_date, end_date) ==
    LET last_day == IF date(end_date) < date(datetime_now) THEN date(end_date)
                    ELSE date(datetime_now)
    IN  IF last_day < date(start_date) THEN 0 ELSE last_day - date(start_date) + 1

SeriesOps == {"get_spending", "get_spending_trend", "get_daily_balance"}

\* C17: each daily series has one element for each calendar day from that of
\* start_date to the earlier of that of end_date and today, none for a later
\* day, and for the same start_date and end_date the spending series and the
\* balance series have the same length.
C17_OneElementPerDay ==
    (lastQuery # None /\ lastQuery.op \in SeriesOps) =>
        /\ Len(lastQuery.result) = DaysInRange(lastQuery.start_date, lastQuery.end_date)
        /\ Len(get_spending(CurrentSession, lastQuery.start_date, lastQuery.end_date))
              = Len(get_daily_balance(CurrentSession, lastQuery.start_date,
                                      lastQuery.end_date))

\* C17 for the spending series alone
SpendingOneElementPerDay ==
    (lastQuery # None /\ lastQuery.op \in {"get_spending", "get_spending_trend"}) =>
        Len(lastQuery.result) = DaysInRange(lastQuery.start_date, lastQuery.end_date)

\* C17 for a start_date at midnight
OneElementPerDayFromMidnight ==
    (lastQuery # None /\ lastQuery.op \in SeriesOps
        /\ lastQuery.start_date = midnight(lastQuery.start_date)) =>
        /\ Len(lastQuery.result) = DaysInRange(lastQuery.start_date, lastQuery.end_date)
        /\ Len(get_spending(CurrentSession, lastQuery.start_date, lastQuery.end_date))
              = Len(get_daily_balance(CurrentSession, lastQuery.start_date,
                                      lastQuery.end_date))

(***************************************************************************)
(* Rounding specification: EUR/USD = 0.25 is stored, so that amounts of     *)
(* two decimals in EUR convert to amounts of three decimals, and the three *)
(* rounded aggregations are read                                           *)
(***************************************************************************)
RoundRate == Rat(1, 4)

InitRound ==
    /\ db = set_rate({}, EUR, USD, RoundRate, TRUE, 1).db
    /\ clock = 1
    /\ call = [rate |-> RoundRate, raised |-> NoError]
    /\ pre = {}
    /\ last = {[pair |-> Pair(EUR, USD), from |-> EUR, to |-> USD, rate |-> RoundRate]}
    /\ allValid = TRUE
    /\ QueryInit
    /\ wpc = "idle" /\ wcall = None /\ wsess = Session(db)
    /\ rpc = "idle" /\ rcall = None /\ rres = None /\ rseen = {}
    /\ LedgerInit

\* 0.50 EUR is 0.125, 1.50 EUR is 0.375, 0.10 EUR is 0.025 in the default
\* currency
RoundRecords ==
    LET today == midnight(datetime_now)
    IN  {record_data(Rat(50, 100), Some(EUR), today, 2, Some(1), TRUE, FALSE, None),
         record_data(Rat(150, 100), Some(EUR), today, 2, Some(1), TRUE, FALSE, None),
         record_data(Rat(10, 100), Some(EUR), today, 2, Some(1), TRUE, FALSE, None),
         record_data(Rat(50, 100), Some(EUR), today, 2, Some(1), FALSE, FALSE, None),
         record_data(Int2Rat(100), None, today, 2, Some(1), TRUE, FALSE, None),
         record_data(Rat(129, 100), None, today, 2, Some(1), FALSE, FALSE, None)}

NextRound ==
    \/ \E data \in RoundRecords : CreateRecordAndSplits(data, <<>>)
    \/ GetAccountBalance(2)
    \/ \E isIncome \in FigFilters : GetPeriodFigures(None, None, None, isIncome, None)
    \/ \E isIncome \in FigFilters :
            GetPeriodTotalsByCurrency(None, None, None, isIncome, None)

SpecRound == InitRound /\ [][NextRound]_vars

\* x rounded to ndigits decimals, a tie going up
RoundHalfUp(x, ndigits) ==
    LET scale == 10 ^ ndigits
    IN  Rat((2 * x.n * scale + x.d) \div (2 * x.d), scale)

\* what the query returns when its unrounded totals are rounded once by the
\* rounding Rnd
RoundedOnce(query, Rnd(_, _)) ==
    CASE query.op = "get_account_balance" ->
            Rnd(BalanceByRule(query.accountId), round_decimals)
      [] query.op = "get_period_figures" ->
            IF query.isIncome # None
            THEN RatAbs(Rnd(PortionSum(query, query.isIncome.some), round_decimals))
            ELSE RatAbs(Rnd(RatSub(PortionSum(query, TRUE), PortionSum(query, FALSE)),
                            round_decimals))
      [] query.op = "get_period_totals_by_currency" ->
            [c \in DOMAIN query.result |->
                [income |-> Rnd(OwnCurrencySum(query, c, TRUE), round_decimals),
                 expense |-> Rnd(OwnCurrencySum(query, c, FALSE), round_decimals),
                 net |-> Rnd(RatSub(OwnCurrencySum(query, c, TRUE),
                                    OwnCurrencySum(query, c, FALSE)), round_decimals)]]

RoundedOps == {"get_account_balance", "get_period_figures",
               "get_period_totals_by_currency"}

\* C18: get_account_balance, get_period_figures and
\* get_period_totals_by_currency return their unrounded totals (the converted
\* amounts summed as they are) rounded once to round_decimals, a tie going up:
\* a total of 0.125 gives 0.13.
C18_RoundsOnceHalfUp ==
    (lastQuery # None /\ lastQuery.op \in RoundedOps) =>
        lastQuery.result = RoundedOnce(lastQuery, RoundHalfUp)

\* the same with Python's round, a tie going to the even digit
RoundsOnceHalfEven ==
    (lastQuery # None /\ lastQuery.op \in RoundedOps) =>
        lastQuery.result = RoundedOnce(lastQuery, round)

\* a balance of two incomes of 0.125 each: the sum is 0.25, not the sum of two
\* rounded amounts
TwoTiesSumExactly ==
    /\ lastQuery # None /\ lastQuery.op = "get_account_balance"
    /\ Len(records) = 2
    /\ \A i \in DOMAIN records :
          records[i].isIncome /\ records[i].amount = Rat(50, 100)
    /\ lastQuery.result = Rat(25, 100)

\* a balance whose unrounded total is 0.125 and that is returned as 0.12
TieGoesToEven ==
    /\ lastQuery # None /\ lastQuery.op = "get_account_balance"
    /\ BalanceByRule(lastQuery.accountId) = Rat(125, 1000)
    /\ lastQuery.result = Rat(12, 100)

(***************************************************************************)
(* Period specification: get_start_end_of_period at every granularity, for *)
(* a current time in each month of the year and at the turn of the year    *)
(***************************************************************************)
MaxOffset == 25

PeriodNows ==
    {datetime(EpochYear, m, 15, 12, 0, 0) : m \in 1..12}
        \cup {datetime(EpochYear, 12, 31, 23, 59, 59),
              datetime(EpochYear + 1, 1, 1, 0, 0, 0),
              datetime(EpochYear, 2, 29, 8, 0, 0),
              datetime(EpochYear - 1, 2, 28, 8, 0, 0)}

InitPeriod ==
    /\ StoreInit /\ QueryInit /\ ConcInit
    /\ CONFIG = Config
    /\ refresh = <<>>
    /\ record_templates = {}
    /\ accounts = <<>> /\ categories = <<>> /\ records = <<>> /\ splits = <<>>
    /\ datetime_now \in PeriodNows

GetStartEndOfPeriod(offset, offset_type) ==
    /\ lastQuery' = [op |-> "get_start_end_of_period", offset |-> offset,
                     offset_type |-> offset_type,
                     result |-> get_start_end_of_period(offset, offset_type)]
    /\ UNCHANGED <<storeVars, concVars, ledgerVars>>

NextPeriod ==
    \E offset \in (-MaxOffset)..MaxOffset, offset_type \in {"year", "month", "week", "day"} :
        GetStartEndOfPeriod(offset, offset_type)

SpecPeriod == InitPeriod /\ [][NextPeriod]_vars

\* the months from January of year 0 to the month of dt
MonthIndex(dt) == year(dt) * 12 + month(dt) - 1

\* 00:00:00 on the first day of the month of that index
FirstOfMonth(index) == datetime(index \div 12, (index % 12) + 1, 1, 0, 0, 0)

\* C19: the month period at an offset starts at 00:00:00 on the first day of
\* the calendar month that lies offset months from the current month, the
\* year rolling forward or back with it, and ends one second before the first
\* day of the month after that one.
C19_MonthPeriod ==
    (lastQuery # None /\ lastQuery.op = "get_start_end_of_period"
        /\ lastQuery.offset_type = "month") =>
        LET target == MonthIndex(datetime_now) + lastQuery.offset
        IN  /\ lastQuery.result[1] = FirstOfMonth(target)
            /\ lastQuery.result[2] = FirstOfMonth(target + 1) - 1
            /\ MonthIndex(lastQuery.result[1]) = target
            /\ MonthIndex(lastQuery.result[2]) = target
            /\ lastQuery.result[1] = midnight(lastQuery.result[1])

\* C19 witness: in November, offset 14 gives January two years later, which
\* ends on the 31st at 23:59:59.
C19_Witness ==
    /\ lastQuery # None /\ lastQuery.op = "get_start_end_of_period"
    /\ lastQuery.offset_type = "month" /\ lastQuery.offset = 14
    /\ month(datetime_now) = 11
    /\ lastQuery.result[1] = datetime(year(datetime_now) + 2, 1, 1, 0, 0, 0)
    /\ lastQuery.result[2] = datetime(year(datetime_now) + 2, 1, 31, 23, 59, 59)

\* in January, offset -13 gives December two years before, which ends one
\* second before the first of January of the year before
C19_WitnessBack ==
    /\ lastQuery # None /\ lastQuery.op = "get_start_end_of_period"
    /\ lastQuery.offset_type = "month" /\ lastQuery.offset = -13
    /\ month(datetime_now) = 1
    /\ lastQuery.result[1] = datetime(year(datetime_now) - 2, 12, 1, 0, 0, 0)
    /\ lastQuery.result[2] = datetime(year(datetime_now) - 1, 1, 1, 0, 0, 0) - 1

(***************************************************************************)
(* Write specification: set_rate and the creation and update of records    *)
(* and splits, with currency codes as callers may pass them                *)
(***************************************************************************)
\* lower case, padded, too short, too long, empty, blank
WriteCodes ==
    {<<"u", "s", "d">>, <<" ", "e", "u", "r", " ">>, <<"U", "S">>,
     <<"e", "u", "r", "s">>, <<>>, <<" ", " ", " ">>}

\* the codes the writes of the specification carry
RateFromCodes == {<<"u", "s", "d">>, <<"U", "S">>}

RateToCodes == {<<" ", "e", "u", "r", " ">>, <<>>}

RecordCodes == {None, Some(<<>>), Some(<<" ", "e", "u", "r", " ">>),
                Some(<<"e", "u", "r", "s">>)}

SplitCodes == {Some(<<"u", "s", "d">>), Some(<<"U", "S">>), Some(<<" ", " ", " ">>)}

WriteRate == Int2Rat(2)

CreateRecord(data) ==
    /\ Len(records) < MaxRecords
    /\ LET out == create_record(records, data)
       IN  /\ records' = out.table
           /\ lastQuery' = [op |-> "create_record", currencyCode |-> data.currencyCode,
                            raised |-> out.err, record |-> records, split |-> splits]
    /\ UNCHANGED <<storeVars, concVars, accounts, categories, splits, datetime_now, appVars>>

CreateSplit(data) ==
    /\ Len(splits) < MaxRecords
    /\ LET out == create_split(splits, data)
       IN  /\ splits' = out.table
           /\ lastQuery' = [op |-> "create_split", currencyCode |-> data.currencyCode,
                            raised |-> out.err, record |-> records, split |-> splits]
    /\ UNCHANGED <<storeVars, concVars, accounts, categories, records, datetime_now, appVars>>

UpdateRecord(record_id, updated_data) ==
    /\ LET out == update_record(records, record_id, updated_data)
       IN  /\ records' = out.table
           /\ lastQuery' = [op |-> "update_record",
                            currencyCode |-> updated_data.currencyCode,
                            raised |-> out.err, record |-> records, split |-> splits]
    /\ UNCHANGED <<storeVars, concVars, accounts, categories, splits, datetime_now, appVars>>

UpdateSplit(split_id, updated_data) ==
    /\ LET out == update_split(splits, split_id, updated_data)
       IN  /\ splits' = out.table
           /\ lastQuery' = [op |-> "update_split",
                            currencyCode |-> updated_data.currencyCode,
                            raised |-> out.err, record |-> records, split |-> splits]
    /\ UNCHANGED <<storeVars, concVars, accounts, categories, records, datetime_now, appVars>>

NextWrite ==
    \/ \E f \in RateFromCodes, t \in RateToCodes : SetRate(f, t, WriteRate, TRUE)
    \/ \E c \in RecordCodes :
            CreateRecord(record_data(Int2Rat(50), c, midnight(datetime_now), 2, Some(1), FALSE, FALSE, None))
    \/ \E c \in SplitCodes :
            /\ records # <<>>
            /\ CreateSplit([split_data(Int2Rat(5), Some(3), TRUE, c) EXCEPT !.recordId = records[1].id])
    \/ \E c \in RecordCodes \ {None}, i \in DOMAIN records :
            UpdateRecord(records[i].id, [currencyCode |-> c])
    \/ \E c \in SplitCodes, j \in DOMAIN splits :
            UpdateSplit(splits[j].id, [currencyCode |-> c])
    \/ \E c \in RecordCodes, d \in SplitCodes :
            /\ Len(splits) < MaxRecords
            /\ CreateRecordAndSplits(record_data(Int2Rat(50), c, midnight(datetime_now), 2, Some(1), FALSE, FALSE, None),
                                     <<split_data(Int2Rat(5), Some(3), TRUE, d)>>)

SpecWrite == Init /\ [][NextWrite]_vars

\* a code as it may be stored: three characters, trimmed, upper case
IsStoredCode(c) == Len(c) = 3 /\ Strip(c) = c /\ Upper(c) = c

\* a code that is not three characters long after trimming
WrongLength(c) == Len(Strip(c)) # 3

C20_WitnessRate ==
    /\ call # None /\ call.raised = "ValueError"
    /\ pre # {} /\ db = pre
    /\ lastQuery = None

\* a record created with an empty code: stored without a code, no error
EmptyRecordCodeIsNoCode ==
    /\ lastQuery # None /\ lastQuery.op = "create_record"
    /\ lastQuery.currencyCode = Some(<<>>)
    /\ lastQuery.raised = NoError
    /\ records[Len(records)].currencyCode = None

(***************************************************************************)
(* utils/currency.py: an amount formatted for display.  A str is a         *)
(* sequence of characters; a Decimal is a sign, a coefficient and a number *)
(* of decimal places (its value is coef / 10^exp)                          *)
(***************************************************************************)
DigitChars == <<"0", "1", "2", "3", "4", "5", "6", "7", "8", "9">>

RECURSIVE str_int(_)
\* str(n) of an int n >= 0
str_int(n) ==
    IF n < 10 THEN <<DigitChars[n + 1]>>
    ELSE str_int(n \div 10) \o <<DigitChars[(n % 10) + 1]>>

RECURSIVE zfill(_, _)
zfill(s, width) == IF Len(s) >= width THEN s ELSE zfill(<<"0">> \o s, width)

DigitValue(c) == (CHOOSE i \in DOMAIN DigitChars : DigitChars[i] = c) - 1

RECURSIVE int_of_digits(_)
int_of_digits(s) ==
    IF s = <<>> THEN 0
    ELSE 10 * int_of_digits(SubSeq(s, 1, Len(s) - 1)) + DigitValue(s[Len(s)])

\* the most decimal places of a float the model prints without an exponent
MaxFrac == 4

\* str(amount) of a float: the shortest decimal numeral that reads back as
\* the float, with at least one decimal place ("12.0", "-0.125")
str(amount) ==
    LET k == CHOOSE k \in 1..MaxFrac :
                 /\ (10 ^ k) % amount.d = 0
                 /\ \A j \in 1..(k - 1) : (10 ^ j) % amount.d # 0
        units == (Abs(amount.n) * 10 ^ k) \div amount.d
    IN  (IF amount.n < 0 THEN <<"-">> ELSE <<>>)
            \o str_int(units \div 10 ^ k) \o <<".">>
            \o zfill(str_int(units % 10 ^ k), k)

\* Decimal(s) of a numeral s
Decimal(s) ==
    LET neg == s # <<>> /\ s[1] = "-"
        body == IF neg THEN Tail(s) ELSE s
        dot == IF \E i \in DOMAIN body : body[i] = "."
               THEN CHOOSE i \in DOMAIN body : body[i] = "."
               ELSE Len(body) + 1
        frac == SubSeq(body, dot + 1, Len(body))
    IN  [neg |-> neg,
         coef |-> int_of_digits(SubSeq(body, 1, dot - 1) \o frac),
         exp |-> Len(frac)]

\* abs(d) of a Decimal
abs(d) == [d EXCEPT !.neg = FALSE]

\* d.quantize(quant, rounding=ROUND_HALF_EVEN)
quantize_half_even(d, decimals) ==
    IF d.exp <= decimals
    THEN [d EXCEPT !.coef = d.coef * 10 ^ (decimals - d.exp), !.exp = decimals]
    ELSE LET unit == 10 ^ (d.exp - decimals)
             q == d.coef \div unit
             twice == 2 * (d.coef % unit)
         IN  [d EXCEPT !.coef = IF twice > unit \/ (twice = unit /\ q % 2 = 1)
                                 THEN q + 1 ELSE q,
                       !.exp = decimals]

\* d.quantize(quant, rounding=ROUND_HALF_UP), quant having `decimals` places:
\* the nearest multiple of 10^-decimals, a tie going away from zero
quantize(d, decimals) ==
    IF d.exp <= decimals
    THEN [d EXCEPT !.coef = d.coef * 10 ^ (decimals - d.exp), !.exp = decimals]
    ELSE LET unit == 10 ^ (d.exp - decimals)
             q == d.coef \div unit
         IN  [d EXCEPT !.coef = IF 2 * (d.coef % unit) >= unit THEN q + 1 ELSE q,
                       !.exp = decimals]

\* str(int(d)) of a Decimal
str_int_of(d) ==
    LET n == d.coef \div 10 ^ d.exp
    IN  (IF d.neg /\ n # 0 THEN <<"-">> ELSE <<>>) \o str_int(n)

\* f"{d:.{decimals}f}" of a Decimal that has `decimals` > 0 places
format_f(d, decimals) ==
    (IF d.neg THEN <<"-">> ELSE <<>>)
        \o str_int(d.coef \div 10 ^ decimals) \o <<".">>
        \o zfill(str_int(d.coef % 10 ^ decimals), decimals)

_normalize_code(code) ==
    IF code = None \/ code = Some(<<>>) THEN Upper(default_currency)
    ELSE Upper(code.some)

\* the first supported currency whose code is norm
first_with_code(norm) ==
    LET cs == CONFIG.currencies.supported
        hits == {i \in DOMAIN cs : Upper(cs[i].code) = norm}
    IN  IF hits = {} THEN None
        ELSE Some(cs[CHOOSE i \in hits : \A j \in hits : i <= j])

get_currency(code) ==
    LET norm == _normalize_code(code)
        default_code == Upper(default_currency)
    IN  IF first_with_code(norm) # None THEN first_with_code(norm)
        ELSE IF norm # default_code THEN first_with_code(default_code)
        ELSE None

get_decimals(code) ==
    IF get_currency(code) # None THEN get_currency(code).some.decimals
    ELSE round_decimals

format_amount(amount, code) ==
    LET cur == get_currency(code)
    IN  IF cur = None
        THEN LET decimals == get_decimals(None)
                 q == quantize(Decimal(str(amount)), decimals)
             IN  IF decimals = 0 THEN str_int_of(q) ELSE format_f(q, decimals)
        ELSE LET symbol == cur.some.symbol
                 decimals == cur.some.decimals
                 sign == IF RatLt(amount, Zero) THEN <<"-">> ELSE <<>>
                 rounded == quantize(abs(Decimal(str(amount))), decimals)
                 number_str == IF decimals = 0 THEN str_int_of(rounded)
                               ELSE format_f(rounded, decimals)
             IN  sign \o symbol \o number_str

\* set_default_currency(code): the configuration afterwards, and the
\* exception raised
set_default_currency(config, code) ==
    LET c == Upper(Strip(IF code = None THEN <<>> ELSE code.some))
        cs == config.currencies.supported
    IN  IF c \notin {Upper(cs[i].code) : i \in DOMAIN cs}
        THEN [CONFIG |-> config, raised |-> "ValueError"]
        ELSE [CONFIG |-> [config EXCEPT !.defaults.default_currency = c],
              raised |-> NoError]

FormatAmount(amount, code) ==
    /\ lastQuery' = [op |-> "format_amount", amount |-> amount, code |-> code,
                     result |-> format_amount(amount, code)]
    /\ UNCHANGED <<storeVars, concVars, ledgerVars>>

SetDefaultCurrency(code) ==
    /\ CONFIG' = set_default_currency(CONFIG, code).CONFIG
    /\ lastQuery' = [op |-> "set_default_currency", code |-> code,
                     raised |-> set_default_currency(CONFIG, code).raised]
    /\ UNCHANGED <<storeVars, concVars, accounts, categories, records, splits,
                   datetime_now, refresh, record_templates>>

(***************************************************************************)
(* Format specification: amounts with up to three decimal places, ties     *)
(* among them, formatted under every default currency                     *)
(***************************************************************************)
SUR == <<"S", "U", "R">>

FormatAmounts ==
    {Rat(n, d) : n \in {-5000, -1235, -125, -15, -5, -1, 0, 1, 5, 15, 25, 125,
                        995, 1235, 5000, 9995},
                 d \in {1, 100, 1000}}

FormatCodes ==
    {None, Some(<<>>), Some(USD), Some(<<"e", "u", "r">>), Some(IDR), Some(SUR),
     Some(<<" ", "I", "D", "R">>)}

DefaultCodes == {None, Some(USD), Some(<<" ", "i", "d", "r", " ">>), Some(EUR), Some(SUR)}

NextFormat ==
    \/ \E amount \in FormatAmounts, code \in FormatCodes : FormatAmount(amount, code)
    \/ \E code \in DefaultCodes : SetDefaultCurrency(code)

SpecFormat == Init /\ [][NextFormat]_vars

\* the configured currency a code names, else the default currency
CurrencyOf(code) ==
    LET named == {i \in DOMAIN supported :
                    code # None /\ supported[i].code = Upper(code.some)}
        dflt == {i \in DOMAIN supported : supported[i].code = default_currency}
    IN  supported[CHOOSE i \in (IF named # {} THEN named ELSE dflt) : TRUE]

\* the numeral of units / 10^decimals, with a decimal point only when
\* decimals > 0
Numeral(units, decimals) ==
    IF decimals = 0 THEN str_int(units)
    ELSE str_int(units \div 10 ^ decimals) \o <<".">>
            \o zfill(str_int(units % 10 ^ decimals), decimals)

\* C21: format_amount(amount, code) is the minus sign exactly when
\* amount < 0, then the currency's symbol, then the magnitude of the amount
\* rounded half-up to the currency's decimal count, written with that many
\* decimal places and with no decimal point when the count is 0; the
\* currency is the configured one the code names, else the default currency
C21_FormatAmount ==
    (lastQuery # None /\ lastQuery.op = "format_amount") =>
        LET cur == CurrencyOf(lastQuery.code)
            amount == lastQuery.amount
            units == (2 * Abs(amount.n) * 10 ^ cur.decimals + amount.d)
                        \div (2 * amount.d)
        IN  lastQuery.result =
                (IF amount.n < 0 THEN <<"-">> ELSE <<>>) \o cur.symbol
                    \o Numeral(units, cur.decimals)

\* -0.125 USD is a tie: "-$0.13"
C21_Witness ==
    /\ lastQuery # None /\ lastQuery.op = "format_amount"
    /\ lastQuery.amount = Rat(-125, 1000)
    /\ lastQuery.code = Some(USD)
    /\ lastQuery.result = <<"-", "$", "0", ".", "1", "3">>

\* a zero-decimal currency: -5000 IDR is "-Rp5000"
C21_WitnessZeroDecimal ==
    /\ lastQuery # None /\ lastQuery.op = "format_amount"
    /\ lastQuery.amount = Int2Rat(-5000)
    /\ lastQuery.code = Some(IDR)
    /\ lastQuery.result = <<"-", "R", "p", "5", "0", "0", "0">>

\* a code that is not configured, the default currency being IDR: 12.35 is
\* "Rp12"
C21_WitnessNotConfigured ==
    /\ lastQuery # None /\ lastQuery.op = "format_amount"
    /\ default_currency = IDR
    /\ lastQuery.amount = Rat(1235, 100)
    /\ lastQuery.code = Some(SUR)
    /\ lastQuery.result = <<"R", "p", "1", "2">>

(***************************************************************************)
(* managers/persons.py: the net due of each person                         *)
(***************************************************************************)
\* get_persons_with_net_due, loop body: what an unpaid split adds to the due
\* of its person (None: the split is skipped)
person_due_entry(session, split) ==
    LET record == split_record(session, split)
        signed_amount == IF record.isIncome THEN RatNeg(split.amount)
                       ELSE split.amount
        code == IF split.currencyCode # None THEN split.currencyCode.some
                ELSE IF record.currencyCode # None THEN record.currencyCode.some
                ELSE default_currency
    IN  IF code = default_currency THEN Some(signed_amount)
        ELSE IF convert(session.currency_rate, signed_amount, code,
                        default_currency) = None
        THEN None
        ELSE Some(convert(session.currency_rate, signed_amount, code,
                          default_currency))

\* get_persons_with_net_due: the persons who have an unpaid split, each with
\* its due, by decreasing |due| (persons have no name in the model: equal
\* dues are ordered by id)
get_persons_with_net_due(session) ==
    LET rows == SelectSeq(session.split, LAMBDA sp : ~sp.isPaid)
        persons == {rows[k].personId : k \in DOMAIN rows}
        dues == [pid \in persons |->
                    SumRat([k \in DOMAIN rows |->
                               IF rows[k].personId # pid
                                  \/ person_due_entry(session, rows[k]) = None
                               THEN Zero
                               ELSE person_due_entry(session, rows[k]).some])]
        before(p, q) == \/ RatLt(RatAbs(dues[q]), RatAbs(dues[p]))
                        \/ (RatAbs(dues[q]) = RatAbs(dues[p]) /\ p < q)
        rank(p) == 1 + Cardinality({q \in persons : before(q, p)})
    IN  [k \in 1..Cardinality(persons) |->
            LET p == CHOOSE p \in persons : rank(p) = k
            IN  [id |-> p, due |-> dues[p]]]

GetPersonsWithNetDue ==
    /\ lastQuery' = [op |-> "get_persons_with_net_due",
                     result |-> get_persons_with_net_due(CurrentSession)]
    /\ UNCHANGED <<storeVars, concVars, ledgerVars>>

(***************************************************************************)
(* Split specification: an expense and an income whose split is paid into  *)
(* another account or left unpaid, in the record's currency or one of its  *)
(* own; the balance of the settling account, the figures, the dues         *)
(***************************************************************************)
SplitRecords ==
    LET today == midnight(datetime_now)
    IN  {record_data(Int2Rat(100), Some(EUR), today, 2, Some(1), FALSE, FALSE, None),
         record_data(Int2Rat(100), None, today, 2, Some(1), FALSE, FALSE, None),
         record_data(Int2Rat(100), Some(EUR), today, 2, Some(1), TRUE, FALSE, None)}

SplitOptions ==
    {<<>>,
     <<split_data(Int2Rat(10), Some(3), TRUE, None)>>,
     <<split_data(Int2Rat(10), Some(3), TRUE, Some(USD))>>,
     <<split_data(Int2Rat(10), Some(3), TRUE, Some(EUR))>>,
     <<split_data(Int2Rat(5), None, FALSE, Some(EUR))>>}

NextSplit ==
    \/ \E data \in SplitRecords, splits_data \in SplitOptions :
            CreateRecordAndSplits(data, splits_data)
    \/ GetAccountBalance(3)
    \/ \E isIncome \in {Some(TRUE), Some(FALSE)} :
            GetPeriodFigures(None, None, None, isIncome, None)
    \/ GetPersonsWithNetDue

SpecSplit == InitLedger /\ [][NextSplit]_vars

\* the amount of split j in the default currency, its currency being its
\* own, else its record's, else the default currency
SplitInDefault(j) == InDefault(splits[j].amount, SplitCurrency(j))

\* the record's amount in the default currency, less each of its splits'
\* amounts in the default currency
ResolvedSelfPortion(i) ==
    RatSub(InDefault(records[i].amount, records[i].currencyCode),
           SumOver([j \in DOMAIN splits |-> SplitInDefault(j)],
                   {j \in DOMAIN splits : splits[j].recordId = records[i].id}))

\* the due of a person: the unpaid splits' amounts in the default currency,
\* owed to us for an expense and by us for an income
DueByRule(pid) ==
    LET unpaid == {j \in DOMAIN splits : ~splits[j].isPaid /\ splits[j].personId = pid}
    IN  SumOver([j \in unpaid |->
                    IF records[splits[j].recordId].isIncome
                    THEN RatNeg(SplitInDefault(j)) ELSE SplitInDefault(j)],
                unpaid)

\* the filtered figure is the sum of the self-portions Portion(i)
FigureIsSumOf(Portion(_)) ==
    (lastQuery # None /\ lastQuery.op = "get_period_figures") =>
        LET matching == {i \in DOMAIN records :
                            /\ ~records[i].isTransfer
                            /\ records[i].isIncome = lastQuery.isIncome.some}
        IN  lastQuery.result =
                RatAbs(round(SumOver([i \in matching |-> Portion(i)], matching),
                             round_decimals))

\* C22: a split's amount enters every aggregate in the split's currency (its
\* own, else its record's, else the default one): the figure deducts from
\* each record what its splits are worth in the default currency, which for
\* a paid split is the amount get_account_balance credits to the settling
\* account; and the due of a person is the sum of the unpaid splits' worth
C22_SplitCurrencyResolved ==
    /\ FigureIsSumOf(ResolvedSelfPortion)
    /\ (lastQuery # None /\ lastQuery.op = "get_account_balance") =>
            lastQuery.result = round(BalanceByRule(lastQuery.accountId), round_decimals)
    /\ (lastQuery # None /\ lastQuery.op = "get_persons_with_net_due") =>
            \A k \in DOMAIN lastQuery.result :
                lastQuery.result[k].due = DueByRule(lastQuery.result[k].id)

\* the self-portion as get_period_figures computes it: the splits' amounts
\* are taken off the record's amount as numbers, and the difference is
\* converted from the record's currency
RecordCurrencySelfPortion(i) == InDefault(SelfPortion(i), records[i].currencyCode)

FigureDeductsInRecordCurrency == FigureIsSumOf(RecordCurrencySelfPortion)

\* what get_account_balance and get_persons_with_net_due do with splits
BalanceAndDuesResolveSplitCurrency ==
    /\ (lastQuery # None /\ lastQuery.op = "get_account_balance") =>
            lastQuery.result = round(BalanceByRule(lastQuery.accountId), round_decimals)
    /\ (lastQuery # None /\ lastQuery.op = "get_persons_with_net_due") =>
            \A k \in DOMAIN lastQuery.result :
                lastQuery.result[k].due = DueByRule(lastQuery.result[k].id)

\* an expense of 100 EUR with a split of 10 USD paid into Bank: the figure is
\* 99 (90 EUR), where 110 less the 10 credited to Bank is 100
SplitInOwnCurrencyDeductedAsRecordCurrency ==
    /\ lastQuery # None /\ lastQuery.op = "get_period_figures"
    /\ lastQuery.isIncome = Some(FALSE)
    /\ Len(records) = 1 /\ Len(splits) = 1
    /\ records[1].currencyCode = Some(EUR)
    /\ splits[1].currencyCode = Some(USD) /\ splits[1].isPaid
    /\ lastQuery.result = Int2Rat(99)
    /\ get_account_balance(CurrentSession, 3) = Rat(3550, 100)

\* the records of the query's period and filters that are transfers
TransfersOf(query) ==
    {i \in DOMAIN records : /\ records[i].isTransfer
                            /\ InPeriod(records[i].date, query)
                            /\ MatchesFilters(i, query)}

\* the records of the query's period and filters that are not transfers
NonTransfersOf(query) ==
    {i \in DOMAIN records : /\ ~records[i].isTransfer
                            /\ InPeriod(records[i].date, query)
                            /\ MatchesFilters(i, query)}

\* C23: without an isIncome filter, get_period_figures includes the transfers
\* of the period in the net total it returns; so when the period holds one
\* transfer and no income or expense, the figure is the magnitude of that
\* transfer in the default currency (rounded to round_decimals).
C23_TransfersInNet ==
    (lastQuery # None /\ lastQuery.op = "get_period_figures"
        /\ lastQuery.isIncome = None
        /\ NonTransfersOf(lastQuery) = {}
        /\ Cardinality(TransfersOf(lastQuery)) = 1) =>
        \A i \in TransfersOf(lastQuery) :
            lastQuery.result =
                RatAbs(round(InDefault(SelfPortion(i), records[i].currencyCode),
                             round_decimals))

\* what the code does: a figure is the same with and without the transfers
\* (C11_UnfilteredFigureIsAbsOfNet states it for the unfiltered figure); a
\* transfer of 30 EUR alone gives 0, not 33
TransferAloneGivesZero ==
    /\ lastQuery # None /\ lastQuery.op = "get_period_figures"
    /\ lastQuery.isIncome = None
    /\ NonTransfersOf(lastQuery) = {}
    /\ \E i \in TransfersOf(lastQuery) :
            InDefault(records[i].amount, records[i].currencyCode) = Int2Rat(33)
    /\ lastQuery.result = Zero

(***************************************************************************)
(* managers/utils.py: budgeting                                            *)
(***************************************************************************)
\* write_state(key, value), key being the path of a field of CONFIG.state:
\* the configuration afterwards
write_state(config, key, value) ==
    [config EXCEPT !.state[key[1]][key[2]] = value]

get_income_to_use(session, offset) ==
    LET metric == CONFIG.state.budgeting.income_assess_metric
        threshold == CONFIG.state.budgeting.income_assess_threshold
        fallback == CONFIG.state.budgeting.income_assess_fallback
        \* the body of "if metric == 'periodIncome'": the value of limit after it
        period_income ==
            CHOOSE limit \in
                {IF RatLt(threshold, this_month_income)
                 THEN this_month_income
                 ELSE get_period_figures(session, None, Some("month"),
                                         Some(offset - 1), Some(TRUE), None)
                    : this_month_income \in
                        {get_period_figures(session, None, Some("month"), Some(offset),
                                            Some(TRUE), None)}} : TRUE
    IN  CHOOSE income \in
            {IF RatLt(limit, fallback) THEN fallback ELSE limit
                : limit \in {IF metric = "periodIncome" THEN period_income ELSE Zero}} :
            TRUE

WriteState(key, value) ==
    /\ CONFIG' = write_state(CONFIG, key, value)
    /\ lastQuery' = None
    /\ UNCHANGED <<storeVars, concVars, accounts, categories, records, splits,
                   datetime_now, refresh, record_templates>>

GetIncomeToUse(offset) ==
    /\ lastQuery' = [op |-> "get_income_to_use", offset |-> offset,
                     result |-> get_income_to_use(CurrentSession, offset)]
    /\ UNCHANGED <<storeVars, concVars, ledgerVars>>

(***************************************************************************)
(* Budget specification: incomes of this month and of the month before,    *)
(* above, at and below the threshold and the fallback, under both income   *)
(* policies                                                                *)
(***************************************************************************)
BudgetRecords ==
    LET this_month == midnight(datetime_now)
        last_month == datetime(year(datetime_now) - 1, 12, 15, 9, 0, 0)
    IN  {record_data(Int2Rat(a), None, this_month, 2, Some(1), TRUE, FALSE, None)
            : a \in {50, 100, 5000}}
        \cup {record_data(Int2Rat(a), None, last_month, 2, Some(1), TRUE, FALSE, None)
                : a \in {200, 4000}}

IncomeMetrics == {"periodIncome", "fallback"}

NextBudget ==
    \/ \E data \in BudgetRecords : CreateRecordAndSplits(data, <<>>)
    \/ \E metric \in IncomeMetrics :
            WriteState(<<"budgeting", "income_assess_metric">>, metric)
    \/ \E offset \in {0, -1} : GetIncomeToUse(offset)

SpecBudget == InitLedger /\ [][NextBudget]_vars

\* the income of the month at the offset: the figure of that month's incomes
MonthIncome(offset) ==
    LET query == [accountId |-> None, nature |-> None,
                  offset_type |-> Some("month"), offset |-> Some(offset)]
    IN  RatAbs(round(PortionSum(query, TRUE), round_decimals))

\* the larger of x and the configured fallback
AtLeastFallback(x) ==
    IF RatLt(x, CONFIG.state.budgeting.income_assess_fallback)
    THEN CONFIG.state.budgeting.income_assess_fallback ELSE x

\* C25: get_income_to_use follows the documented policies.  periodIncome:
\* the month's income, or the previous month's if the month's is less than
\* income_assess_threshold, and the fallback if that is below
\* income_assess_fallback.  fallback: the month's income, or the fallback if
\* the income is less than income_assess_fallback.  Never below the fallback.
C25_IncomePolicies ==
    (lastQuery # None /\ lastQuery.op = "get_income_to_use") =>
        LET current == MonthIncome(lastQuery.offset)
            previous == MonthIncome(lastQuery.offset - 1)
            budgeting == CONFIG.state.budgeting
        IN  /\ budgeting.income_assess_metric = "periodIncome" =>
                    lastQuery.result =
                        AtLeastFallback(
                            IF RatLt(current, budgeting.income_assess_threshold)
                            THEN previous ELSE current)
            /\ budgeting.income_assess_metric = "fallback" =>
                    lastQuery.result = AtLeastFallback(current)
            /\ ~RatLt(lastQuery.result, budgeting.income_assess_fallback)

\* what the code does: under "fallback" the result is the fallback whatever
\* the income; under "periodIncome" the previous month is used when the
\* month's income is not above the threshold
IncomeToUseAsCoded ==
    (lastQuery # None /\ lastQuery.op = "get_income_to_use") =>
        LET current == MonthIncome(lastQuery.offset)
            previous == MonthIncome(lastQuery.offset - 1)
            budgeting == CONFIG.state.budgeting
        IN  /\ budgeting.income_assess_metric = "periodIncome" =>
                    lastQuery.result =
                        AtLeastFallback(
                            IF RatLt(budgeting.income_assess_threshold, current)
                            THEN current ELSE previous)
            /\ budgeting.income_assess_metric = "fallback" =>
                    lastQuery.result = budgeting.income_assess_fallback
            /\ ~RatLt(lastQuery.result, budgeting.income_assess_fallback)

\* metric "fallback", an income of 5000 this month: the result is 3500
FallbackMetricIgnoresIncome ==
    /\ lastQuery # None /\ lastQuery.op = "get_income_to_use"
    /\ CONFIG.state.budgeting.income_assess_metric = "fallback"
    /\ MonthIncome(lastQuery.offset) = Int2Rat(5000)
    /\ lastQuery.result = Int2Rat(3500)

\* metric "periodIncome", an income of exactly the threshold this month and
\* 4000 the month before: the result is 4000
IncomeAtThresholdUsesPreviousMonth ==
    /\ lastQuery # None /\ lastQuery.op = "get_income_to_use"
    /\ CONFIG.state.budgeting.income_assess_metric = "periodIncome"
    /\ MonthIncome(lastQuery.offset) = Int2Rat(100)
    /\ lastQuery.result = Int2Rat(4000)

(***************************************************************************)
(* managers/utils.py: dynamic_cache, and the refresh of the budgets module *)
(* that calls it                                                           *)
(***************************************************************************)
\* the keyword arguments of a cached call (None: not given)
call_args(isIncome, offset, offset_type, nature) ==
    [isIncome |-> isIncome, offset |-> offset, offset_type |-> offset_type,
     nature |-> nature]

\* func(*args, **kwargs) for the functions the budgets module caches
call_func(session, func, args) ==
    IF func = "get_income_to_use" THEN get_income_to_use(session, args.offset.some)
    ELSE get_period_figures(session, None, args.offset_type, args.offset,
                            args.isIncome, args.nature)

\* lru_cache()(func): a wrapper around func with a cache of its own, empty
lru_cache(func) == [func |-> func, cache |-> {}]

\* cached_func(*args, **kwargs): the cached value of the arguments if the
\* wrapper's cache holds one, else func is evaluated
cached_call(session, cached_func, args) ==
    IF \E e \in cached_func.cache : e.args = args
    THEN [func |-> cached_func.func, args |-> args, evaluated |-> FALSE,
          result |-> (CHOOSE e \in cached_func.cache : e.args = args).result]
    ELSE [func |-> cached_func.func, args |-> args, evaluated |-> TRUE,
          result |-> call_func(session, cached_func.func, args)]

\* dynamic_cache(func, *args, **kwargs): the call's result, and whether func
\* was evaluated for it
dynamic_cache(session, func, args) == cached_call(session, lru_cache(func), args)

\* the most dynamic_cache calls the model makes in one refresh
MaxCached == 5

DynamicCache(func, args) ==
    /\ Len(refresh) < MaxCached
    /\ \E called \in {dynamic_cache(CurrentSession, func, args)} :
          /\ refresh' = Append(refresh, called)
          /\ lastQuery' = [op |-> "dynamic_cache", func |-> func, args |-> args,
                           result |-> called.result]
    /\ UNCHANGED <<storeVars, concVars, accounts, categories, records, splits,
                   datetime_now, CONFIG, record_templates>>

\* the four cached calls of Budgets._rebuild_income_bar, in its order
income_bar_calls(offset) ==
    << <<"get_income_to_use", call_args(None, Some(offset), None, None)>>,
       <<"get_period_figures",
         call_args(Some(FALSE), Some(offset), Some("month"), None)>>,
       <<"get_period_figures",
         call_args(Some(FALSE), Some(offset), Some("month"), Some("Must"))>>,
       <<"get_period_figures",
         call_args(Some(FALSE), Some(offset), Some("month"), Some("Need"))>> >>

\* Budgets._rebuild_income_bar: a refresh; its four cached calls
RebuildIncomeBar(offset) ==
    /\ \E called \in [1..4 -> {dynamic_cache(CurrentSession, c[1], c[2]) :
                                  c \in {income_bar_calls(offset)[i] : i \in 1..4}}] :
          /\ \A i \in 1..4 : called[i].func = income_bar_calls(offset)[i][1]
          /\ \A i \in 1..4 : called[i].args = income_bar_calls(offset)[i][2]
          /\ refresh' = called
    /\ lastQuery' = [op |-> "_rebuild_income_bar", offset |-> offset]
    /\ UNCHANGED <<storeVars, concVars, accounts, categories, records, splits,
                   datetime_now, CONFIG, record_templates>>

(***************************************************************************)
(* Cache specification: refreshes of the budgets module and further cached *)
(* calls within a refresh, with records written in between                 *)
(***************************************************************************)
CacheRecords ==
    {record_data(Int2Rat(5000), None, midnight(datetime_now), 2, Some(1), TRUE,
                 FALSE, None),
     record_data(Int2Rat(50), None, midnight(datetime_now), 2, Some(1), FALSE,
                 FALSE, None)}

CachedCalls ==
    {<<"get_income_to_use", call_args(None, Some(0), None, None)>>,
     <<"get_period_figures", call_args(Some(FALSE), Some(0), Some("month"), None)>>}

NextCache ==
    \/ \E data \in CacheRecords : CreateRecordAndSplits(data, <<>>)
    \/ RebuildIncomeBar(0)
    \/ \E c \in CachedCalls : DynamicCache(c[1], c[2])

SpecCache == InitLedger /\ [][NextCache]_vars

\* call k of the refresh repeats an earlier call of the same refresh: the
\* same function with the same arguments
Repeats(k, j) ==
    /\ j < k
    /\ refresh[j].func = refresh[k].func
    /\ refresh[j].args = refresh[k].args

\* C24: within one refresh, a dynamic_cache call that repeats an earlier one
\* does not evaluate the function again and returns the earlier call's
\* result: each function is evaluated once per arguments.
C24_MemoizedWithinRefresh ==
    \A k \in DOMAIN refresh : \A j \in DOMAIN refresh :
        Repeats(k, j) =>
            /\ ~refresh[k].evaluated
            /\ refresh[k].result = refresh[j].result

\* what the code does: every dynamic_cache call evaluates the function
EveryCallEvaluates == \A k \in DOMAIN refresh : refresh[k].evaluated

\* the same call twice in one refresh, both evaluated
RepeatedCallEvaluatedAgain ==
    \E k \in DOMAIN refresh : \E j \in DOMAIN refresh :
        Repeats(k, j) /\ refresh[j].evaluated /\ refresh[k].evaluated

\* the same call twice in one refresh with a record written in between: the
\* second result is not the first
RepeatedCallSeesTheWrite ==
    \E k \in DOMAIN refresh : \E j \in DOMAIN refresh :
        Repeats(k, j) /\ refresh[k].result # refresh[j].result

\* a timestamp is in a period under the filter the aggregations use:
\* start <= date < end
InFilter(t, period) == period[1] <= t /\ t < period[2]

\* C26: the periods at consecutive offsets k and k+1, under the filter
\* start <= date < end, tile the timeline: each timestamp from the start of
\* period k to the last second of period k+1 (the last second of period k's
\* last day among them) is in exactly one of the two periods.
C26_PeriodsTile ==
    (lastQuery # None /\ lastQuery.op = "get_start_end_of_period") =>
        LET p == lastQuery.result
            q == get_start_end_of_period(lastQuery.offset + 1, lastQuery.offset_type)
            last_second_of_p == q[1] - 1
        IN  \A t \in {p[1], last_second_of_p - 1, last_second_of_p, q[1], q[2] - 1} :
                InFilter(t, p) # InFilter(t, q)

\* what the code does: a period ends at 23:59:59 of its last day and the next
\* starts one second later, so consecutive periods do not overlap and leave
\* out exactly the timestamp `end`
ConsecutivePeriodsLeaveOutLastSecond ==
    (lastQuery # None /\ lastQuery.op = "get_start_end_of_period") =>
        LET p == lastQuery.result
            q == get_start_end_of_period(lastQuery.offset + 1, lastQuery.offset_type)
        IN  /\ q[1] = p[2] + 1
            /\ p[2] = last_second(p[2])
            /\ ~InFilter(p[2], p) /\ ~InFilter(p[2], q)
            /\ \A t \in {p[1], p[2] - 1} : InFilter(t, p) /\ ~InFilter(t, q)
            /\ \A t \in {q[1], q[2] - 1} : InFilter(t, q) /\ ~InFilter(t, p)

\* the current month being January 2024: a record dated 2024-01-31 23:59:59
\* is in neither the month at offset 0 nor the month at offset 1
LastSecondOfMonthInNoPeriod ==
    /\ lastQuery # None /\ lastQuery.op = "get_start_end_of_period"
    /\ lastQuery.offset_type = "month" /\ lastQuery.offset = 0
    /\ datetime_now = datetime(EpochYear, 1, 15, 12, 0, 0)
    /\ LET t == datetime(EpochYear, 1, 31, 23, 59, 59)
       IN  /\ ~InFilter(t, lastQuery.result)
           /\ ~InFilter(t, get_start_end_of_period(1, "month"))
           /\ InFilter(t - 1, lastQuery.result)

(***************************************************************************)
(* Transfer specification: transfers between the three accounts, "Outside  *)
(* source" among them, in the default, a convertible and an unconvertible  *)
(* currency, beside an income with a paid split                            *)
(***************************************************************************)
TransferRecords ==
    LET when == midnight(datetime_now)
    IN  {record_data(Int2Rat(30), c, when, t[1], None, FALSE, TRUE, Some(t[2])) :
            c \in {None, Some(EUR), Some(IDR)},
            t \in {<<3, 2>>, <<2, 1>>, <<1, 3>>}}
        \cup {record_data(Int2Rat(100), Some(EUR), when, 2, Some(1), TRUE, FALSE, None)}

TransferSplits(data) ==
    IF data.isTransfer THEN {<<>>}
    ELSE {<<split_data(Rat(1234, 100), Some(3), TRUE, None)>>}

NextTransfer ==
    \/ \E data \in TransferRecords : \E splits_data \in TransferSplits(data) :
            CreateRecordAndSplits(data, splits_data)
    \/ \E accountId \in AccountIds : GetAccountBalance(accountId)

SpecTransfer == InitLedger /\ [][NextTransfer]_vars

\* the sum of the unrounded balances of all accounts of a database
TotalBalance(session) ==
    SumRat([a \in DOMAIN session.account |->
               balance_of(session, session.account[a].id)])

\* the step adds one record, a transfer between two different accounts,
\* without splits
AddsTransfer ==
    /\ Len(records') = Len(records) + 1
    /\ SubSeq(records', 1, Len(records)) = records
    /\ splits' = splits
    /\ records'[Len(records')].isTransfer
    /\ records'[Len(records')].transferToAccountId # None
    /\ records'[Len(records')].transferToAccountId.some
            # records'[Len(records')].accountId

\* C27: adding a transfer from account X to a different account Y lowers the
\* unrounded balance of X and raises that of Y by the transfer's amount in
\* the default currency, and changes no other balance, so the sum of the
\* balances over all accounts ("Outside source" included) is unchanged; an
\* unconvertible transfer changes no balance.
C27_TransfersConserveMoney ==
    [][AddsTransfer =>
        LET transfer == records'[Len(records')]
            X == transfer.accountId
            Y == transfer.transferToAccountId.some
            moved == InDefault(transfer.amount, transfer.currencyCode)
            before == [a \in AccountIds |-> balance_of(CurrentSession, a)]
            after == [a \in AccountIds |-> balance_of(CurrentSession', a)]
        IN  /\ after[X] = RatSub(before[X], moved)
            /\ after[Y] = RatAdd(before[Y], moved)
            /\ \A a \in AccountIds \ {X, Y} : after[a] = before[a]
            /\ TotalBalance(CurrentSession') = TotalBalance(CurrentSession)
            /\ Unconvertible(transfer) => after = before]_vars

\* a transfer of 30 EUR from Bank to Cash has been added: Bank is at
\* 25.50 - 33, Cash at 33, the total still 25.50
C27_Witness ==
    /\ Len(records) = 1
    /\ records[1].isTransfer /\ records[1].currencyCode = Some(EUR)
    /\ records[1].accountId = 3 /\ records[1].transferToAccountId = Some(2)
    /\ balance_of(CurrentSession, 3) = Rat(-750, 100)
    /\ balance_of(CurrentSession, 2) = Int2Rat(33)
    /\ TotalBalance(CurrentSession) = Rat(2550, 100)

\* an unconvertible transfer to "Outside source" has been added: every
\* balance is the beginning balance
C27_WitnessUnconvertible ==
    /\ Len(records) = 1
    /\ records[1].isTransfer /\ records[1].currencyCode = Some(IDR)
    /\ records[1].transferToAccountId = Some(1)
    /\ \A a \in DOMAIN accounts :
          balance_of(CurrentSession, accounts[a].id) = accounts[a].beginningBalance

(***************************************************************************)
(* Agreement specification: the balance series beside the account          *)
(* balances, over incomes and expenses with splits paid into Bank, Cash or *)
(* "Outside source" or left unpaid, transfers to and from "Outside         *)
(* source" and between Cash and Bank, a record of tomorrow and one without *)
(* a rate                                                                  *)
(***************************************************************************)
AgreeRecords ==
    LET today == midnight(datetime_now)
        yesterday == today - days(1)
        morning == 8 * 60 * 60
    IN  {record_data(Int2Rat(80), Some(EUR), today + morning, 2, Some(1), FALSE, FALSE, None),
         record_data(Int2Rat(100), None, yesterday + morning, 3, None, TRUE, FALSE, None),
         record_data(Int2Rat(30), None, yesterday, 2, None, FALSE, TRUE, Some(1)),
         record_data(Int2Rat(30), Some(EUR), last_second(today), 1, None, FALSE, TRUE, Some(3)),
         record_data(Int2Rat(30), None, today, 2, None, FALSE, TRUE, Some(3)),
         record_data(Int2Rat(20), None, today + days(1), 2, Some(1), FALSE, FALSE, None),
         record_data(Int2Rat(50), Some(IDR), today, 2, Some(1), FALSE, FALSE, None)}

AgreeSplits(data) ==
    IF data.isTransfer \/ data.currencyCode = Some(IDR) \/ data.date > last_second(datetime_now)
    THEN {<<>>}
    ELSE IF data.isIncome
    THEN {<<>>, <<split_data(Rat(1234, 100), Some(2), TRUE, None)>>}
    ELSE {<<>>,
          <<split_data(Rat(1234, 100), Some(3), TRUE, None)>>,
          <<split_data(Rat(1234, 100), Some(3), TRUE, Some(USD))>>,
          <<split_data(Rat(1234, 100), Some(1), TRUE, None)>>,
          <<split_data(Rat(1234, 100), None, FALSE, None)>>}

AgreeStarts == {midnight(datetime_now) - days(1), midnight(datetime_now)}

AgreeEnds == {last_second(datetime_now), last_second(datetime_now) + days(1)}

NextAgree ==
    \/ \E data \in AgreeRecords : \E splits_data \in AgreeSplits(data) :
            CreateRecordAndSplits(data, splits_data)
    \/ \E start_date \in AgreeStarts, end_date \in AgreeEnds :
            GetDailyBalance(start_date, end_date)

SpecAgree == InitLedger /\ [][NextAgree]_vars

OutsideSource == {a \in DOMAIN accounts : accounts[a].name = "Outside source"}

\* the conditions under which the series and the balances are compared
Comparable ==
    /\ \A i \in DOMAIN records :
          /\ date(records[i].date) <= date(datetime_now)
          /\ ~Unconvertible(records[i])
          /\ records[i].accountId \in OutsideSource => records[i].isTransfer
    /\ \A a \in DOMAIN accounts :
          /\ accounts[a].deletedAt = None
          /\ a \in OutsideSource => accounts[a].beginningBalance = Zero
    /\ \A j \in DOMAIN splits :
          /\ splits[j].isPaid
          /\ splits[j].accountId # None
          /\ splits[j].accountId.some \notin OutsideSource
          /\ splits[j].currencyCode = None

\* the element of a balance series for today
ElementForToday(query) == query.result[date(datetime_now) - date(query.start_date) + 1]

\* the sum of the unrounded balances of the accounts other than "Outside
\* source"
TrackedBalance ==
    SumOver([a \in DOMAIN accounts |-> balance_of(CurrentSession, accounts[a].id)],
            DOMAIN accounts \ OutsideSource)

\* C28: for a start_date at midnight, with no record dated after today, no
\* soft-deleted account, every amount convertible, "Outside source" at
\* beginning balance 0 and owning only transfers, and every split paid into
\* a tracked account with no currency code of its own, the element of
\* get_daily_balance for today is the sum of the unrounded balances of the
\* accounts other than "Outside source".
C28_SeriesAgreesWithBalances ==
    (lastQuery # None /\ lastQuery.op = "get_daily_balance"
        /\ lastQuery.start_date = midnight(lastQuery.start_date)
        /\ date(lastQuery.start_date) <= date(datetime_now)
        /\ date(datetime_now) <= date(lastQuery.end_date)
        /\ Comparable) =>
        ElementForToday(lastQuery) = TrackedBalance

\* an expense of 80 EUR with a split paid into Bank, and a transfer from
\* "Outside source": series and balances agree on 25.50 - 88 + 13.574 + 33
C28_Witness ==
    /\ lastQuery # None /\ lastQuery.op = "get_daily_balance"
    /\ lastQuery.start_date = midnight(datetime_now) - days(1)
    /\ Comparable
    /\ Len(records) = 2 /\ Len(splits) = 1
    /\ \E i \in DOMAIN records : records[i].accountId \in OutsideSource
    /\ ElementForToday(lastQuery) = Rat(-15926, 1000)
    /\ TrackedBalance = Rat(-15926, 1000)

\* an income with a split paid into Cash: series and balances agree on
\* 25.50 + 100, the split moving 12.34 from Bank to Cash
C28_WitnessIncomeSplit ==
    /\ lastQuery # None /\ lastQuery.op = "get_daily_balance"
    /\ Comparable
    /\ Len(records) = 1 /\ Len(splits) = 1 /\ records[1].isIncome
    /\ ElementForToday(lastQuery) = Rat(11316, 100)
    /\ balance_of(CurrentSession, 2) = Rat(-1234, 100)

\* an unpaid split: the series takes it off the record, no account is
\* credited, and the two differ
UnpaidSplitSeparatesSeriesFromBalances ==
    /\ lastQuery # None /\ lastQuery.op = "get_daily_balance"
    /\ lastQuery.start_date = midnight(lastQuery.start_date)
    /\ Len(splits) = 1 /\ ~splits[1].isPaid
    /\ ElementForToday(lastQuery) # TrackedBalance

(***************************************************************************)
(* Default specification: records and splits with and without a currency   *)
(* code, a second rate, and set_default_currency between the balances      *)
(***************************************************************************)
DefaultRecords ==
    LET when == midnight(datetime_now)
    IN  {record_data(Int2Rat(50), None, when, 2, Some(1), FALSE, FALSE, None),
         record_data(Int2Rat(50), Some(EUR), when, 2, Some(1), FALSE, FALSE, None),
         record_data(Int2Rat(100), Some(EUR), when, 3, None, TRUE, FALSE, None),
         record_data(Int2Rat(100), None, when, 3, None, FALSE, FALSE, None),
         record_data(Int2Rat(30), None, when, 3, None, FALSE, TRUE, Some(2))}

\* no split, or (for the records of Bank) a split without a code paid into Cash
DefaultSplits(data) ==
    IF data.accountId = 3 /\ ~data.isTransfer
    THEN {<<>>, <<split_data(Rat(1234, 100), Some(2), TRUE, None)>>}
    ELSE {<<>>}

NextDefault ==
    \/ \E data \in DefaultRecords : \E splits_data \in DefaultSplits(data) :
            CreateRecordAndSplits(data, splits_data)
    \/ SetRate(USD, IDR, Int2Rat(2), TRUE)
    \/ \E code \in {Some(USD), Some(EUR), Some(IDR)} : SetDefaultCurrency(code)
    \/ GetAccountBalance(2)

SpecDefault == InitLedger /\ [][NextDefault]_vars

\* the records of an account (its own and the transfers into it) and the
\* splits paid into it all have no currency code
NoCodeOn(acc) ==
    /\ \A i \in DOMAIN records :
          (records[i].accountId = acc
              \/ (records[i].isTransfer /\ records[i].transferToAccountId = Some(acc)))
            => records[i].currencyCode = None
    /\ \A j \in DOMAIN splits :
          splits[j].accountId = Some(acc) => splits[j].currencyCode = None

\* the records that the splits paid into the account belong to have no
\* currency code
NoCodeOnSplitRecords(acc) ==
    \A j \in DOMAIN splits :
        splits[j].accountId = Some(acc) =>
            records[splits[j].recordId].currencyCode = None

\* beginningBalance and the amounts of the account's records and paid splits
\* added as they are: no rate and no default currency enters
RawBalance(acc) ==
    LET owned == {i \in DOMAIN records : records[i].accountId = acc}
        into == {i \in DOMAIN records :
                    records[i].isTransfer /\ records[i].transferToAccountId = Some(acc)}
        paid == {j \in DOMAIN splits : splits[j].isPaid /\ splits[j].accountId = Some(acc)}
    IN  RatAdd(RatAdd(RatAdd(accounts[acc].beginningBalance,
            SumOver([i \in owned |->
                        IF records[i].isIncome /\ ~records[i].isTransfer
                        THEN records[i].amount ELSE RatNeg(records[i].amount)], owned)),
            SumOver([i \in into |-> records[i].amount], into)),
            SumOver([j \in paid |->
                        IF records[splits[j].recordId].isIncome
                        THEN RatNeg(splits[j].amount) ELSE splits[j].amount], paid))

\* C29 as stated: for an account whose records and splits all have
\* currencyCode None, get_account_balance is beginningBalance plus the
\* amounts as they are, so it is the same number under every default
\* currency set_default_currency sets, whatever rates are stored.
C29_NoCodeBalanceKeepsNumber ==
    \A acc \in AccountIds :
        NoCodeOn(acc) =>
            get_account_balance(CurrentSession, acc) = round(RawBalance(acc), round_decimals)

\* C29, amended: the same for an account whose records and splits all have
\* currencyCode None and whose splits belong to records that have
\* currencyCode None (a split without a code is read in its record's
\* currency).
C29_NoCodeAnywhereBalanceKeepsNumber ==
    \A acc \in AccountIds :
        (NoCodeOn(acc) /\ NoCodeOnSplitRecords(acc)) =>
            get_account_balance(CurrentSession, acc) = round(RawBalance(acc), round_decimals)

\* the default is EUR after set_default_currency; Cash has an expense of 50
\* and a split of 12.34 of an expense of Bank, none with a code: its balance
\* is -50 + 12.34 as it was under USD
C29_Witness ==
    /\ lastQuery # None /\ lastQuery.op = "set_default_currency"
    /\ lastQuery.raised = NoError
    /\ default_currency = EUR
    /\ NoCodeOn(2) /\ NoCodeOnSplitRecords(2)
    /\ Len(records) = 2
    /\ \E i \in DOMAIN records : records[i].accountId = 2
    /\ \E j \in DOMAIN splits : splits[j].accountId = Some(2)
    /\ get_account_balance(CurrentSession, 2) = Rat(-3766, 100)

\* the default is EUR after set_default_currency; Cash has a split of 12.34,
\* without a code, of an income of 100 EUR of Bank: its balance is -12.34,
\* where it was -13.57 under USD
SplitOfCodedRecordFollowsDefault ==
    /\ lastQuery # None /\ lastQuery.op = "set_default_currency"
    /\ default_currency = EUR
    /\ NoCodeOn(2) /\ ~NoCodeOnSplitRecords(2)
    /\ Len(records) = 1
    /\ RawBalance(2) = Rat(-1234, 100)
    /\ get_account_balance(CurrentSession, 2) = Rat(-1234, 100)

(***************************************************************************)
(* models/record_template.py, managers/record_templates.py: the order of   *)
(* the record templates                                                    *)
(***************************************************************************)
\* a row of table record_template: its id, its label and its order column
RecordTemplate(id, label, order) == [id |-> id, label |-> label, order |-> order]

\* order = Column(Integer, nullable=False, unique=True): what a flush checks
unique_order(rows) ==
    \A a \in rows : \A b \in rows : a.order = b.order => a.id = b.id

\* the before_insert listener: target.order = (max_order or 0) + 1
receive_before_insert(rows, target) ==
    LET max_order == IF rows = {} THEN None
                     ELSE Some(CHOOSE o \in {t.order : t \in rows} :
                                   \A t \in rows : t.order <= o)
    IN [target EXCEPT !.order =
            (IF max_order = None \/ max_order = Some(0) THEN 0 ELSE max_order.some) + 1]

\* create_template(data): the new row gets the id after the largest one in
\* the table and the order the listener gives it
create_template(rows, data) ==
    LET id == IF rows = {} THEN 1
              ELSE 1 + CHOOSE i \in {t.id : t \in rows} : \A t \in rows : t.id <= i
        new_template == receive_before_insert(rows, RecordTemplate(id, data.label, None))
    IN IF unique_order(rows \cup {new_template})
       THEN [rows |-> rows \cup {new_template}, result |-> Some(new_template),
             raised |-> "NoError"]
       ELSE [rows |-> rows, result |-> None, raised |-> "IntegrityError"]

\* swap_template_order(recordtemplate_id, direction): two flushes with negated
\* orders, then the commit with the exchanged ones
swap_template_order(rows, recordtemplate_id, direction) ==
    LET found == {t \in rows : t.id = recordtemplate_id}
    IN IF found = {} THEN [rows |-> rows, result |-> None, raised |-> "NoError"]
       ELSE
         LET recordtemplate == CHOOSE t \in found : TRUE
             current_order == recordtemplate.order
             adjacent == {t \in rows : t.order = (IF direction = "next"
                                                  THEN current_order + 1
                                                  ELSE current_order - 1)}
         IN IF adjacent = {}
            THEN [rows |-> rows, result |-> Some(recordtemplate), raised |-> "NoError"]
            ELSE
              LET swap_template == CHOOSE t \in adjacent : TRUE
                  others == rows \ {recordtemplate, swap_template}
                  flushed1 == others \cup {[recordtemplate EXCEPT !.order = -current_order],
                                         swap_template}
                  flushed2 == others \cup {[recordtemplate EXCEPT !.order = -current_order],
                                         [swap_template EXCEPT !.order = -swap_template.order]}
                  swapped == [recordtemplate EXCEPT !.order = -(-swap_template.order)]
                  committed == others \cup {swapped,
                                         [swap_template EXCEPT !.order = current_order]}
              IN IF unique_order(flushed1) /\ unique_order(flushed2) /\ unique_order(committed)
                 THEN [rows |-> committed, result |-> Some(swapped), raised |-> "NoError"]
                 ELSE [rows |-> rows, result |-> None, raised |-> "IntegrityError"]

\* delete_template that removes the row and leaves the other orders alone
delete_template_keeps_orders(rows, recordtemplate_id) ==
    [rows |-> {t \in rows : t.id # recordtemplate_id},
     result |-> \E t \in rows : t.id = recordtemplate_id,
     raised |-> "NoError"]

\* delete_template(recordtemplate_id): the later templates get temporary
\* negative orders, the row is deleted, the later templates get
\* recordtemplate.order + i in their old sequence
delete_template(rows, recordtemplate_id) ==
    LET found == {t \in rows : t.id = recordtemplate_id}
    IN IF found = {} THEN [rows |-> rows, result |-> FALSE, raised |-> "NoError"]
       ELSE
         LET recordtemplate == CHOOSE t \in found : TRUE
             templates == {t \in rows : t.order > recordtemplate.order}
             i(t) == Cardinality({u \in templates : u.order < t.order})
             others == rows \ (templates \cup {recordtemplate})
             flushed1 == others \cup {recordtemplate}
                         \cup {[t EXCEPT !.order = -(i(t) + 1)] : t \in templates}
             flushed2 == flushed1 \ {recordtemplate}
             committed == others
                         \cup {[t EXCEPT !.order = recordtemplate.order + i(t)] : t \in templates}
         IN IF unique_order(flushed1) /\ unique_order(flushed2) /\ unique_order(committed)
            THEN [rows |-> committed, result |-> TRUE, raised |-> "NoError"]
            ELSE [rows |-> rows, result |-> FALSE, raised |-> "IntegrityError"]

\* the most ids the model hands out to templates
MaxTemplates == 3

CreateTemplate(data) ==
    /\ \A t \in record_templates : t.id < MaxTemplates
    /\ record_templates' = create_template(record_templates, data).rows
    /\ lastQuery' = [op |-> "create_template", data |-> data,
                     result |-> create_template(record_templates, data).result,
                     raised |-> create_template(record_templates, data).raised]
    /\ UNCHANGED <<storeVars, concVars, accounts, categories, records, splits,
                   datetime_now, CONFIG, refresh>>

SwapTemplateOrder(recordtemplate_id, direction) ==
    /\ record_templates' =
          swap_template_order(record_templates, recordtemplate_id, direction).rows
    /\ lastQuery' = [op |-> "swap_template_order",
                     recordtemplate_id |-> recordtemplate_id, direction |-> direction,
                     result |-> swap_template_order(record_templates, recordtemplate_id,
                                                    direction).result,
                     raised |-> swap_template_order(record_templates, recordtemplate_id,
                                                    direction).raised]
    /\ UNCHANGED <<storeVars, concVars, accounts, categories, records, splits,
                   datetime_now, CONFIG, refresh>>

DeleteTemplate(recordtemplate_id) ==
    /\ record_templates' = delete_template(record_templates, recordtemplate_id).rows
    /\ lastQuery' = [op |-> "delete_template", recordtemplate_id |-> recordtemplate_id,
                     order |-> {t.order : t \in {u \in record_templates :
                                                     u.id = recordtemplate_id}},
                     result |-> delete_template(record_templates, recordtemplate_id).result,
                     raised |-> delete_template(record_templates, recordtemplate_id).raised]
    /\ UNCHANGED <<storeVars, concVars, accounts, categories, records, splits,
                   datetime_now, CONFIG, refresh>>

(***************************************************************************)
(* Template specification: templates created, moved up and down, deleted    *)
(***************************************************************************)
TemplateLabels == {"Coffee", "Rent"}

NextTemplate ==
    \/ \E label \in TemplateLabels : CreateTemplate([label |-> label])
    \/ \E id \in 1..(MaxTemplates + 1), direction \in {"next", "previous"} :
           SwapTemplateOrder(id, direction)
    \/ \E id \in 1..(MaxTemplates + 1) : DeleteTemplate(id)

SpecTemplate == Init /\ [][NextTemplate]_vars

\* the order values are pairwise distinct and are exactly 1..n
OrdersAreOneToN(rows) ==
    /\ \A a \in rows : \A b \in rows : a # b => a.order # b.order
    /\ {t.order : t \in rows} = 1..Cardinality(rows)

\* the row of the template with this id, in the table before the operation
TemplateBefore(id) == CHOOSE t \in record_templates : t.id = id

Stored(id) == \E t \in record_templates : t.id = id

\* creation appends at n + 1 and changes no stored template
CreateAppends ==
    \E t \in record_templates' :
        /\ t \notin record_templates
        /\ ~Stored(t.id)
        /\ t.label = lastQuery'.data.label
        /\ t.order = Cardinality(record_templates) + 1
        /\ record_templates' = record_templates \cup {t}
        /\ lastQuery'.result = Some(t)

\* deletion removes the template and moves every later template down by one
DeleteClosesGap ==
    LET id == lastQuery'.recordtemplate_id
    IN IF ~Stored(id)
       THEN record_templates' = record_templates /\ lastQuery'.result = FALSE
       ELSE /\ lastQuery'.result = TRUE
            /\ record_templates' =
                 {[t EXCEPT !.order = IF t.order > TemplateBefore(id).order
                                      THEN t.order - 1 ELSE t.order] :
                      t \in record_templates \ {TemplateBefore(id)}}
            /\ \A a \in record_templates \ {TemplateBefore(id)} :
               \A b \in record_templates \ {TemplateBefore(id)} :
                   a.order < b.order =>
                       \E c \in record_templates' : \E d \in record_templates' :
                           c.id = a.id /\ d.id = b.id /\ c.order < d.order

\* a swap exchanges the orders of the template and of its neighbour in the
\* direction given and changes no other template; at either end, and for an
\* id that is not stored, it changes nothing
SwapExchangesNeighbours ==
    LET id == lastQuery'.recordtemplate_id
        n == Cardinality(record_templates)
        step == IF lastQuery'.direction = "next" THEN 1 ELSE -1
    IN IF ~Stored(id) THEN record_templates' = record_templates
       ELSE IF TemplateBefore(id).order + step \notin 1..n
       THEN record_templates' = record_templates
       ELSE \E other \in record_templates :
              /\ other.order = TemplateBefore(id).order + step
              /\ record_templates' =
                   (record_templates \ {TemplateBefore(id), other})
                      \cup {[TemplateBefore(id) EXCEPT !.order = other.order],
                            [other EXCEPT !.order = TemplateBefore(id).order]}

\* C30: after any sequence of create_template, delete_template and
\* swap_template_order operations the order values of the stored templates
\* are pairwise distinct and are exactly 1..n for n templates; no operation
\* raises; creation appends at n + 1; deletion closes the gap by moving every
\* later template down by one, keeping their relative order; a swap exchanges
\* the orders of two adjacent templates and changes no other template, and a
\* swap at either end changes nothing.
C30_TemplateOrders ==
    [][ /\ OrdersAreOneToN(record_templates)
        /\ OrdersAreOneToN(record_templates')
        /\ lastQuery'.raised = "NoError"
        /\ lastQuery'.op = "create_template" => CreateAppends
        /\ lastQuery'.op = "delete_template" => DeleteClosesGap
        /\ lastQuery'.op = "swap_template_order" => SwapExchangesNeighbours ]_vars

\* the first of three templates has been deleted: the two later ones, which
\* had been exchanged by a swap, are now first and second
C30_Witness ==
    /\ lastQuery # None
    /\ lastQuery.op = "delete_template"
    /\ lastQuery.recordtemplate_id = 1
    /\ lastQuery.order = {1}
    /\ lastQuery.result = TRUE
    /\ record_templates = {RecordTemplate(3, "Rent", 1), RecordTemplate(2, "Coffee", 2)}

\* a swap in the middle, and a swap at the end that changed nothing
C30_WitnessSwap ==
    /\ lastQuery # None
    /\ lastQuery.op = "swap_template_order"
    /\ lastQuery.recordtemplate_id = 1
    /\ lastQuery.direction = "next"
    /\ lastQuery.result = Some(RecordTemplate(1, "Coffee", 3))
    /\ record_templates = {RecordTemplate(2, "Coffee", 1), RecordTemplate(3, "Rent", 2),
                           RecordTemplate(1, "Coffee", 3)}

=============================================================================
